---- MODULE Spec2Model ----
(***************************************************************************)
(* Climatus accuracy service: the forecast reconciliation engine over the  *)
(* SQLite storage adapter, and the lease-based leader election.            *)
(*                                                                         *)
(* Time in the reconciliation part is counted in whole hours (every        *)
(* targetTime and actual time is a top-of-hour timestamp); time in the     *)
(* lease part is counted in seconds.  Forecast and actual values are       *)
(* counted in units of 0.5, so that 3 stands for 1.5.  A mean absolute     *)
(* error is an exact fraction <<numerator, denominator>> in lowest terms:  *)
(* the arithmetic of the code is modelled over the rationals, the rounding *)
(* of IEEE doubles is not.                                                 *)
(***************************************************************************)
EXTENDS Integers, Sequences, FiniteSets, TLC

VARIABLES
    \* ---- reconciliation engine and its stores ----
    now,            \* wall clock, in hours
    ticks,          \* number of clock advances so far (bounded)
    pending,        \* table pending_forecasts
    actuals,        \* table actual_weather
    history,        \* table historical_forecasts
    scores,         \* table accuracy_scores
    nextId,         \* AUTOINCREMENT of pending_forecasts
    nextHistId,     \* AUTOINCREMENT of historical_forecasts
    tx,             \* the open transaction of applyAccuracyUpdatesAndDelete
    audit,          \* bookkeeping: what happened to each pending row and bucket
    lastOp,         \* bookkeeping: the operation that produced this state
    \* ---- lease manager ----
    adapter,        \* storage module the lease calls go to
    clock,          \* wall clock, in seconds
    lticks,         \* number of clock advances so far (bounded)
    lease,          \* row LEASE_ID of table leader_lease
    lastCheck,      \* row 'last-accuracy-check' of table leader_lease
    pc,             \* position of each instance in checkAndRunHourlyUpdate
    seen,           \* the lease each instance read in its last acquireLease
    tnow,           \* the `now` each instance sampled in acquireLease
    isLeader,       \* module variable isLeader of each instance
    leaseInterval,  \* whether the renewal timer of each instance is set
    rpc,            \* position of each instance in renewLease
    mpc,            \* position of each instance in runFullAccuracyCycleNow
    cycle,          \* the fullUpdateCycle calls in flight in each instance
    ret,            \* what the last acquireLease of each instance returned
    \* ---- one fullUpdateCycle, step by step ----
    step,           \* the step of fullUpdateCycle that runs next
    failedAt,       \* the first step of this cycle in which a storage call threw
    cyclesDone,     \* cycles finished since the last clearAccuracyData
    added,          \* bookkeeping: the records passed to addActualWeather, in order
    \* ---- fetch queue of openMeteoService ----
    requestQueue,   \* requestQueue: the requests waiting, oldest first
    isProcessingQueue, \* module variable isProcessingQueue
    qpc,            \* position of the processQueue loop
    qclock,         \* wall clock, in milliseconds
    inflight,       \* the requests whose fetch has started and not yet settled
    completion,     \* the promise queuedFetch returned for each request
    loops,          \* bookkeeping: processQueue loops past their entry test
    lastDispatch,   \* bookkeeping: the time the last fetch was started
    enqueued,       \* bookkeeping: the requests in the order they were pushed
    dispatched,     \* bookkeeping: the requests in the order their fetch started
    settles,        \* bookkeeping: how often each promise was resolved or rejected
    \* ---- model fan-out of fetchAndProcessModels ----
    fan,            \* position of the async callback of each model
    successes,      \* array successes (model keys, in push order)
    failures,       \* array failures (modelName and reason, in push order)
    joined,         \* outcome of await Promise.all(fetchPromises)
    \* ---- processing of the responses ----
    responses,      \* apiResponses: the successful payloads, in push order
    forecasts,      \* the ProcessedForecasts object, key order kept
    derived,        \* forecasts['median_model'].hourly
    \* ---- disk cache of current weather ----
    env,            \* process.env of the server
    cacheFiles,     \* the *.current.json files on disk, by directory and name
    resp,           \* the last response of GET /api/weather/current
    \* ---- the score store of the IndexedDB adapter ----
    idbScores,      \* object store accuracy_scores, keyed by [locationId, modelKey]
    \* ---- processPastForecasts calls in flight ----
    passes,         \* what each call has read and computed, not yet applied
    \* ---- bookkeeping of checkAndRunHourlyUpdate ----
    seeded          \* whether the call in progress has run the seeding cycle

reconVars == <<now, ticks, pending, actuals, history, scores, nextId,
               nextHistId, tx, audit, lastOp>>
leaseVars == <<adapter, clock, lticks, lease, lastCheck, pc, seen, tnow,
               isLeader, leaseInterval, rpc, mpc, cycle, ret>>
auxVars == <<step, failedAt, cyclesDone, added>>
queueVars == <<requestQueue, isProcessingQueue, qpc, qclock, inflight, completion,
               loops, lastDispatch, enqueued, dispatched, settles>>
fanVars == <<fan, successes, failures, joined>>
procVars == <<responses, forecasts, derived>>
cacheVars == <<env, cacheFiles, resp>>
idbVars == <<idbScores>>
passVars == <<passes>>
runVars == <<seeded>>
netVars == <<queueVars, fanVars, procVars, cacheVars, idbVars, passVars, runVars>>
vars == <<reconVars, leaseVars, auxVars, netVars>>

----------------------------------------------------------------------------
\* Bounds of the model

MaxRows == 2
MaxActuals == 1
MaxTicks == 1
MaxUpdates == 3
MaxLeaseTicks == 1
MaxCycles == 2
MaxAdds == 3
MaxModels == 3

----------------------------------------------------------------------------
\* Program constants

ACCURACY_FORECAST_START_HOUR == 1
ACCURACY_MAX_FORECAST_HOURS == 120
ACCURACY_STALE_FORECAST_HOURS == 336
LEASE_DURATION == 90
LEASE_RENEWAL_INTERVAL == 60
OneHour == 3600
MIN_REQUEST_INTERVAL == 100
\* rain > 0.05, snow > 0.05 of the median point, in units of 0.005
PRECIPITATION_PRESENT == 10

\* the route matches a location within 0.02 degree on each axis
MATCH_TOLERANCE == 200

\* an optional value (a column that may be null, a query that may find no row):
\* the empty set for null, {v} for the value v
NULL == {}
Some(v) == {v}
TheValue(x) == CHOOSE v \in x : TRUE

\* two service instances (processes with their own myId)
Instances == {1, 2}

\* ACCURACY_LOCATIONS (ids), two of the four
Locations == {1, 2}
\* two of the model keys of MODELS
Models == {"gfs_global", "gem_global"}
\* two of the TRACKABLE_METRICS
Metrics == {"temperature_2m", "rain"}

\* the models of one fan-out, in the order of MODELS
FetchModels == <<"icon_global", "gfs_global", "gem_global">>

FetchModelSet == {FetchModels[k] : k \in 1..Len(FetchModels)}

\* what is passed to queuedFetch: the forecast of a model, or the archive
Requests == FetchModelSet \cup {"archive"}

\* the processPastForecasts calls that can overlap: the one of the scheduled
\* cycle and the one of runFullAccuracyCycleNow
Passes == {"scheduled", "manual"}

\* process.env: SERVER_ALLOW_LIVE_FETCH_ON_MISS is 'true', SERVER_CACHE_DIR is set
DefaultEnv == [allowLive |-> FALSE, cacheDirSet |-> FALSE]
Intervals == {"24h", "48h", "5d"}

Buckets == Locations \X Models \X Metrics \X Intervals

\* values an upstream model reports for a metric, in units of 0.5
ForecastValues == {1, 4}
\* values the archive reports for a metric: a number, or null (not observed)
ActualValues == {Some(1), NULL}
\* hours between the fetch and the target hour of a forecast point
TargetOffsets == {-1, 1, 121}
\* lead times the generation time of a response can yield
LeadTimes == {0, 1, 24, 25, 30, 48, 49}
\* hours of the archive response relative to the current hour
ArchiveOffsets == {-1, 1}
\* clock advances, in hours
TickHours == {1, 336}

RowIds == 1..MaxRows

\* the forecast points an upstream response can carry: the temperature of
\* model gfs_global at location 1 with every lead time, and with lead time 30
\* the same point with another value, location, model or metric
BasePoint ==
    [locationId |-> 1, modelKey |-> "gfs_global", metricKey |-> "temperature_2m",
     lead |-> 30, value |-> 4]

ForecastPoints ==
    {[BasePoint EXCEPT !.lead = l] : l \in LeadTimes}
    \cup {[BasePoint EXCEPT !.value = v] : v \in ForecastValues}
    \cup {[BasePoint EXCEPT !.locationId = l] : l \in Locations}
    \cup {[BasePoint EXCEPT !.modelKey = m] : m \in Models}
    \cup {[BasePoint EXCEPT !.metricKey = k] : k \in Metrics}

----------------------------------------------------------------------------
\* Exact fractions <<n, d>> with d > 0

RECURSIVE GCD(_, _)
GCD(a, b) == IF b = 0 THEN a ELSE GCD(b, a % b)

Norm(n, d) == IF n = 0 THEN <<0, 1>> ELSE LET g == GCD(n, d) IN <<n \div g, d \div g>>

----------------------------------------------------------------------------
\* SQLite adapter: queries

\* faulty variant: rows of the hour after the cutoff are due as well
getDuePendingForecastsNoMargin(rows, cutoff) == {f \in rows : f.targetTime <= cutoff + 1}

\* SELECT * FROM pending_forecasts WHERE targetTime <= cutoff
getDuePendingForecasts(rows, cutoff) == {f \in rows : f.targetTime <= cutoff}

\* SELECT time FROM actual_weather WHERE locationId = ? ORDER BY time DESC LIMIT 1
getLatestActualWeatherTime(acts, locationId) ==
    LET mine == {a \in acts : a.locationId = locationId}
    IN  IF mine = {} THEN NULL
        ELSE Some((CHOOSE a \in mine : \A b \in mine : b.time <= a.time).time)

\* SELECT * FROM actual_weather WHERE locationId = ? AND time BETWEEN ? AND ?
getActualsForLocationAndTimeRange(acts, locationId, minTime, maxTime) ==
    {a \in acts : a.locationId = locationId /\ a.time >= minTime /\ a.time <= maxTime}

\* INSERT OR IGNORE INTO actual_weather: column time is UNIQUE
addActualWeather(acts, record) ==
    IF \E a \in acts : a.time = record.time THEN acts ELSE acts \cup {record}

----------------------------------------------------------------------------
\* processPastForecasts: what one pass computes from the due rows

minTime(rows) == (CHOOSE f \in rows : \A g \in rows : f.targetTime <= g.targetTime).targetTime
maxTime(rows) == (CHOOSE f \in rows : \A g \in rows : f.targetTime >= g.targetTime).targetTime

\* faulty variant: the range query does not filter by location
ActualForAnyLocation(f, due, acts) ==
    LET mine == {g \in due : g.locationId = f.locationId}
        range == {a \in acts : a.time >= minTime(mine) /\ a.time <= maxTime(mine)}
        hit == {a \in range : a.time = f.targetTime}
    IN  IF hit = {} THEN NULL ELSE Some(CHOOSE a \in hit : TRUE)

\* actualsMap.get(forecast.targetTime) over the range query of the forecast's location
ActualFor(f, due, acts) ==
    LET mine == {g \in due : g.locationId = f.locationId}
        range == getActualsForLocationAndTimeRange(acts, f.locationId, minTime(mine), maxTime(mine))
        hit == {a \in range : a.time = f.targetTime}
    IN  IF hit = {} THEN NULL ELSE Some(CHOOSE a \in hit : TRUE)

\* typeof actualValue === 'number' && isFinite(actualValue)
IsFiniteNumber(v) == v # NULL

ActualValue(f, due, acts) == TheValue(TheValue(ActualFor(f, due, acts)).vals[f.metricKey])

\* faulty variant: the scoring loop does not look at the lead time
ScorableAnyLead(f, due, acts) ==
    /\ ActualFor(f, due, acts) # NULL
    /\ IsFiniteNumber(TheValue(ActualFor(f, due, acts)).vals[f.metricKey])

\* the guards of the scoring loop: lead time, actual present, actual value finite
Scorable(f, due, acts) ==
    /\ ~(f.forecastLeadTimeHours < ACCURACY_FORECAST_START_HOUR)
    /\ ActualFor(f, due, acts) # NULL
    /\ IsFiniteNumber(TheValue(ActualFor(f, due, acts)).vals[f.metricKey])

Abs(x) == IF x < 0 THEN -x ELSE x

\* faulty variant: the bucket limits are exclusive
IntervalForExclusive(lead) ==
    IF lead < 24 THEN "24h" ELSE IF lead < 48 THEN "48h" ELSE "5d"

IntervalFor(lead) ==
    IF lead <= 24 THEN "24h" ELSE IF lead <= 48 THEN "48h" ELSE "5d"

\* src is bookkeeping: the id of the pending row the update was computed from
UpdateOf(f, due, acts) ==
    [locationId |-> f.locationId, modelKey |-> f.modelKey, metricKey |-> f.metricKey,
     error |-> Abs(f.forecastedValue - ActualValue(f, due, acts)),
     interval |-> IntervalFor(f.forecastLeadTimeHours), src |-> f.id]

HistoricalOf(f, due, acts) ==
    [locationId |-> f.locationId, modelKey |-> f.modelKey, metricKey |-> f.metricKey,
     targetTime |-> f.targetTime, forecastLeadTimeHours |-> f.forecastLeadTimeHours,
     forecastedValue |-> f.forecastedValue,
     actualValue |-> ActualValue(f, due, acts),
     error |-> Abs(f.forecastedValue - ActualValue(f, due, acts)),
     src |-> f.id]

\* the rows in the order the loops visit them: by location, then by row id
First(rows) ==
    CHOOSE f \in rows : \A g \in rows :
        \/ f.locationId < g.locationId
        \/ (f.locationId = g.locationId /\ f.id <= g.id)

RECURSIVE InLoopOrder(_)
InLoopOrder(rows) ==
    IF rows = {} THEN <<>> ELSE <<First(rows)>> \o InLoopOrder(rows \ {First(rows)})

RECURSIVE UpdatesIn(_, _, _)
UpdatesIn(s, due, acts) ==
    IF s = <<>> THEN <<>>
    ELSE <<UpdateOf(Head(s), due, acts)>> \o UpdatesIn(Tail(s), due, acts)

RECURSIVE HistoricalIn(_, _, _)
HistoricalIn(s, due, acts) ==
    IF s = <<>> THEN <<>>
    ELSE <<HistoricalOf(Head(s), due, acts)>> \o HistoricalIn(Tail(s), due, acts)

\* the list `updates` of one pass
Updates(due, acts) ==
    UpdatesIn(InLoopOrder({f \in due : Scorable(f, due, acts)}), due, acts)

\* faulty variant: the pass writes no historical record
HistoricalRecordsNone(due, acts) == <<>>

\* the list `historicalRecordsToAdd` of one pass
HistoricalRecordsToAdd(due, acts) ==
    HistoricalIn(InLoopOrder({f \in due : Scorable(f, due, acts)}), due, acts)

\* faulty variant: the pass deletes no pending row
IdsToDeleteNone(due) == {}

\* faulty variant: the pass deletes only the rows it has scored
IdsToDeleteScored(due) == {f.id : f \in {g \in due : Scorable(g, due, actuals)}}

\* dueForecasts.map(f => f.id)
IdsToDelete(due) == {f.id : f \in due}

----------------------------------------------------------------------------
\* SQLite adapter: applyAccuracyUpdatesAndDelete, statement by statement.
\* The statements work on w, the stores as the transaction sees them.

BucketOf(u) == <<u.locationId, u.modelKey, u.metricKey, u.interval>>

\* faulty variant: the new mean is the plain average of the old mean and the error
NewMAEUnweighted(cur, error) ==
    IF cur = NULL THEN Norm(error, 1)
    ELSE LET c == TheValue(cur)
         IN  Norm(c.meanAbsoluteError[1] + error * c.meanAbsoluteError[2],
                  2 * c.meanAbsoluteError[2])

\* newMAE: u.error for a new row, else (MAE * hoursTracked + error) / (hoursTracked + 1)
NewMAE(cur, error) ==
    IF cur = NULL THEN Norm(error, 1)
    ELSE LET c == TheValue(cur)
             n == c.meanAbsoluteError[1]
             d == c.meanAbsoluteError[2]
         IN  Norm(n * c.hoursTracked + error * d, d * (c.hoursTracked + 1))

\* newHours: 1 for a new row, else hoursTracked + 1
NewHours(cur) == IF cur = NULL THEN 1 ELSE TheValue(cur).hoursTracked + 1

\* one iteration of `for (const u of updates)`: read the row, upsert it
ScoreUpdate(w, u) ==
    LET b == BucketOf(u)
        cur == w.scores[b]
    IN  [w EXCEPT
           !.scores[b] = Some([meanAbsoluteError |-> NewMAE(cur, u.error),
                               hoursTracked |-> NewHours(cur)]),
           !.audit.rows[u.src].inc = @ + 1,
           !.audit.buckets[b] = [n |-> @.n + 1, sum |-> @.sum + u.error]]

RECURSIVE ApplyScoreUpdates(_, _)
ApplyScoreUpdates(w, updates) ==
    IF updates = <<>> THEN w
    ELSE ApplyScoreUpdates(ScoreUpdate(w, Head(updates)), Tail(updates))

\* faulty variant: the delete empties the pending table
DeletePendingAll(w, ids) ==
    [w EXCEPT
       !.pending = {},
       !.audit.rows = [i \in RowIds |->
            IF \E f \in w.pending : f.id = i
            THEN [@[i] EXCEPT !.fate = "pass"] ELSE @[i]]]

\* DELETE FROM pending_forecasts WHERE id = ?, for every id of idsToDelete
DeletePending(w, ids) ==
    [w EXCEPT
       !.pending = {f \in @ : f.id \notin ids},
       !.audit.rows = [i \in RowIds |->
            IF i \in ids /\ (\E f \in w.pending : f.id = i)
            THEN [@[i] EXCEPT !.fate = "pass"] ELSE @[i]]]

\* one INSERT INTO historical_forecasts
InsertHistorical(w, r) ==
    [w EXCEPT
       !.history = @ \cup {[id |-> w.nextHistId, rec |-> r]},
       !.nextHistId = @ + 1,
       !.audit.rows[r.src].hist = @ + 1]

RECURSIVE InsertAllHistorical(_, _)
InsertAllHistorical(w, recs) ==
    IF recs = <<>> THEN w
    ELSE InsertAllHistorical(InsertHistorical(w, Head(recs)), Tail(recs))

\* faulty variant: no transaction, every statement is durable at once
RollbackNothing(durable, work) == work

\* number of score updates applied since the last reset (bookkeeping)
RECURSIVE SumN(_)
SumN(bs) ==
    IF bs = {} THEN 0
    ELSE LET b == CHOOSE b \in bs : TRUE IN audit.buckets[b].n + SumN(bs \ {b})

TotalUpdates == SumN(Buckets)

\* the updates a caller can pass: errors 0, 0.5 and 1.5 for three buckets
UpdateErrors == {0, 1, 3}

UpdateInputs ==
    {[locationId |-> 1, modelKey |-> m, metricKey |-> "temperature_2m",
      error |-> e, interval |-> i, src |-> 1] :
        m \in Models, e \in UpdateErrors, i \in {"24h", "48h"}}

\* db.transaction(...): what is durable when the transaction does not commit
Rollback(durable, work) == durable

\* no transaction open; before is bookkeeping: the stores as the last
\* transaction found them
NoTx(before) == [stage |-> "none", before |-> before]

\* the stores a transaction reads and writes, and the bookkeeping that goes with them
Durable ==
    [pending |-> pending, history |-> history, scores |-> scores,
     nextHistId |-> nextHistId, audit |-> audit]

SetDurable(w) ==
    /\ pending' = w.pending
    /\ history' = w.history
    /\ scores' = w.scores
    /\ nextHistId' = w.nextHistId
    /\ audit' = w.audit

\* the stores after a whole pass run at hour t on the stores d
PassResult(d, acts, t) ==
    LET due == getDuePendingForecasts(d.pending, t - 1)
    IN  IF due = {} THEN d
        ELSE InsertAllHistorical(
                 DeletePending(ApplyScoreUpdates(d, Updates(due, acts)), IdsToDelete(due)),
                 HistoricalRecordsToAdd(due, acts))

\* the same pass over the due rows of one location only
PassOfLocation(d, acts, t, locationId) ==
    LET due == {f \in getDuePendingForecasts(d.pending, t - 1) : f.locationId = locationId}
    IN  IF due = {} THEN d
        ELSE InsertAllHistorical(
                 DeletePending(ApplyScoreUpdates(d, Updates(due, acts)), IdsToDelete(due)),
                 HistoricalRecordsToAdd(due, acts))

----------------------------------------------------------------------------
\* Initial state of the stores: empty tables (initDB creates them)

EmptyAudit ==
    [rows |-> [i \in RowIds |-> [inc |-> 0, hist |-> 0, fate |-> "none"]],
     buckets |-> [b \in Buckets |-> [n |-> 0, sum |-> 0]]]

\* the service started on tables that hold the pending rows p and the actual
\* records acts
InitStores(a, p, acts) ==
    /\ now = 0
    /\ ticks = 0
    /\ pending = p
    /\ actuals = acts
    /\ history = {}
    /\ scores = [b \in Buckets |-> NULL]
    /\ nextId = Cardinality(p) + 1
    /\ nextHistId = 1
    /\ tx = NoTx([pending |-> p, history |-> {}, scores |-> [b \in Buckets |-> NULL],
                   nextHistId |-> 1, audit |-> EmptyAudit])
    /\ audit = EmptyAudit
    /\ lastOp = "other"
    /\ adapter = a
    /\ clock = 0
    /\ lticks = 0
    /\ lease = NULL
    /\ lastCheck = NULL
    /\ pc = [i \in Instances |-> "idle"]
    /\ seen = [i \in Instances |-> NULL]
    /\ tnow = [i \in Instances |-> 0]
    /\ isLeader = [i \in Instances |-> FALSE]
    /\ leaseInterval = [i \in Instances |-> FALSE]
    /\ rpc = [i \in Instances |-> "idle"]
    /\ mpc = [i \in Instances |-> "idle"]
    /\ cycle = [i \in Instances |-> {}]
    /\ ret = [i \in Instances |-> "none"]
    /\ step = "idle"
    /\ failedAt = "none"
    /\ cyclesDone = 0
    /\ added = <<>>

\* the fetch queue after the module is loaded
InitQueue ==
    /\ requestQueue = <<>>
    /\ isProcessingQueue = FALSE
    /\ qpc = [at |-> "idle", since |-> 0]
    /\ qclock = 0
    /\ inflight = {}
    /\ completion = [r \in Requests |-> "none"]
    /\ loops = 0
    /\ lastDispatch = NULL
    /\ enqueued = <<>>
    /\ dispatched = <<>>
    /\ settles = [r \in Requests |-> 0]

\* no fan-out under way
InitFan ==
    /\ fan = [m \in FetchModelSet |-> "idle"]
    /\ successes = <<>>
    /\ failures = <<>>
    /\ joined = "none"

\* the payloads rs are about to be processed
InitProc(rs) ==
    /\ responses = rs
    /\ forecasts = NULL
    /\ derived = NULL

\* the server starts with environment e and an empty cache
InitCache(e) ==
    /\ env = e
    /\ cacheFiles = {}
    /\ resp = NULL

\* the object store accuracy_scores of a new database
InitIdb == idbScores = [k \in Locations \X Models |-> NULL]

\* no processPastForecasts call is in flight
InitPasses == passes = [p \in Passes |-> NULL]

\* no checkAndRunHourlyUpdate call is in progress
InitRun == seeded = [i \in Instances |-> FALSE]

\* the stores with pending rows p and actual records acts, nothing fetched
InitFrom(a, p, acts) ==
    /\ InitStores(a, p, acts)
    /\ InitQueue
    /\ InitFan
    /\ InitProc(<<>>)
    /\ InitCache(DefaultEnv)
    /\ InitIdb
    /\ InitPasses
    /\ InitRun

\* the service started on empty tables
InitWith(a) == InitFrom(a, {}, {})

\* pending rows other writers of the table may have left: every location,
\* target hour and lead time (0 included), and one row of another metric and
\* one of another value
TableRows ==
    {[locationId |-> l, modelKey |-> "gfs_global", metricKey |-> "temperature_2m",
      targetTime |-> t, forecastedValue |-> 4, forecastLeadTimeHours |-> h] :
        l \in Locations, t \in {-2, -1}, h \in {0, 1, 30}}
    \cup {[locationId |-> 1, modelKey |-> "gfs_global", metricKey |-> "rain",
           targetTime |-> -1, forecastedValue |-> 4, forecastLeadTimeHours |-> 30],
          [locationId |-> 1, modelKey |-> "gfs_global", metricKey |-> "temperature_2m",
           targetTime |-> -1, forecastedValue |-> 1, forecastLeadTimeHours |-> 30]}

WithId(r, i) ==
    [id |-> i, locationId |-> r.locationId, modelKey |-> r.modelKey,
     metricKey |-> r.metricKey, targetTime |-> r.targetTime,
     forecastedValue |-> r.forecastedValue,
     forecastLeadTimeHours |-> r.forecastLeadTimeHours]

\* contents of pending_forecasts with ids 1, 2 in insertion order
TablePending ==
    {{}} \cup {{WithId(r, 1)} : r \in TableRows}
         \cup {{WithId(r, 1), WithId(q, 2)} : r \in TableRows, q \in TableRows}

\* records of the archive: every metric observed, or the temperature missing
TableActualRecords ==
    [locationId : Locations, time : {-2, -1},
     vals : {[k \in Metrics |-> Some(1)],
             [k \in Metrics |-> IF k = "temperature_2m" THEN NULL ELSE Some(1)]}]

\* contents of actual_weather: column time is UNIQUE
TableActuals ==
    {{}} \cup {{a} : a \in TableActualRecords}
         \cup {{a, b} : a \in {x \in TableActualRecords : x.time = -2},
                        b \in {x \in TableActualRecords : x.time = -1}}

\* the service started on tables with content
InitTables == \E p \in TablePending, acts \in TableActuals : InitFrom("sqlite", p, acts)

\* the service over the SQLite adapter
Init == InitWith("sqlite")

\* the service over the adapter accuracyService imports, mockDbService
InitMock == InitWith("mock")

----------------------------------------------------------------------------
\* Actions of the reconciliation engine

Tick(d) ==
    /\ tx.stage = "none"
    /\ ticks < MaxTicks
    /\ now' = now + d
    /\ ticks' = ticks + 1
    /\ lastOp' = "other"
    /\ UNCHANGED <<pending, actuals, history, scores, nextId, nextHistId, tx, audit>>
    /\ UNCHANGED <<leaseVars, auxVars, netVars>>

\* syncActualWeather for one location; the archive answers with the record
\* of hour now + off carrying vals
SyncActualWeather(locationId, off, vals) ==
    LET latest == getLatestActualWeatherTime(actuals, locationId)
        startTime == IF latest # NULL THEN TheValue(latest) + 1
                     ELSE now - 14 * 24
        endTime == now - 1
        record == [locationId |-> locationId, time |-> now + off, vals |-> vals]
    IN  /\ tx.stage = "none"
        /\ Cardinality(actuals) < MaxActuals
        /\ actuals' = IF startTime >= endTime THEN actuals
                      ELSE IF record.time >= startTime
                           THEN addActualWeather(actuals, record)
                           ELSE actuals
        /\ lastOp' = "other"
        /\ UNCHANGED <<now, ticks, pending, history, scores, nextId, nextHistId, tx, audit>>
        /\ UNCHANGED <<leaseVars, auxVars, netVars>>

\* storeFutureForecasts for one location; the model answers with one point:
\* value for the hour now + off, in a response generated at hour generationTime
StoreFutureForecasts(locationId, modelKey, metricKey, off, generationTime, value) ==
    LET targetTime == now + off
        forecastLeadTimeHours == targetTime - generationTime
        forecastsToAdd ==
            IF targetTime > now + ACCURACY_MAX_FORECAST_HOURS THEN {}
            ELSE IF forecastLeadTimeHours < ACCURACY_FORECAST_START_HOUR THEN {}
            ELSE {[id |-> nextId, locationId |-> locationId, modelKey |-> modelKey,
                   metricKey |-> metricKey, targetTime |-> targetTime,
                   forecastedValue |-> value,
                   forecastLeadTimeHours |-> forecastLeadTimeHours]}
    IN  /\ tx.stage = "none"
        /\ nextId <= MaxRows
        /\ pending' = pending \cup forecastsToAdd
        /\ nextId' = nextId + Cardinality(forecastsToAdd)
        /\ lastOp' = "other"
        /\ UNCHANGED <<now, ticks, actuals, history, scores, nextHistId, tx, audit>>
        /\ UNCHANGED <<leaseVars, auxVars, netVars>>

\* processPastForecasts, the transaction of applyAccuracyUpdatesAndDelete included
ProcessPastForecasts ==
    /\ tx.stage = "none"
    /\ SetDurable(PassResult(Durable, actuals, now))
    /\ lastOp' = "process"
    /\ UNCHANGED <<now, ticks, actuals, nextId, tx>>
    /\ UNCHANGED <<leaseVars, auxVars, netVars>>

\* The same pass with the transaction taken statement group by statement group,
\* for the crash analysis.  ApplyBegin: processPastForecasts up to and including
\* the loop over `updates` inside the transaction.
ApplyBegin ==
    LET due == getDuePendingForecasts(pending, now - 1)
    IN  /\ tx.stage = "none"
        /\ due # {}
        /\ tx' = [stage |-> "delete", before |-> Durable,
                  idsToDelete |-> IdsToDelete(due),
                  historicalRecordsToAdd |-> HistoricalRecordsToAdd(due, actuals),
                  w |-> ApplyScoreUpdates(Durable, Updates(due, actuals))]
        /\ lastOp' = "other"
        /\ UNCHANGED <<now, ticks, pending, actuals, history, scores, nextId, nextHistId, audit>>
        /\ UNCHANGED <<leaseVars, auxVars, netVars>>

\* the loop over idsToDelete
ApplyDelete ==
    /\ tx.stage = "delete"
    /\ tx' = [tx EXCEPT !.stage = "historical", !.w = DeletePending(@, tx.idsToDelete)]
    /\ UNCHANGED <<now, ticks, pending, actuals, history, scores, nextId, nextHistId, audit, lastOp>>
    /\ UNCHANGED <<leaseVars, auxVars, netVars>>

\* the loop over historicalRecordsToAdd, and the commit
ApplyHistoricalAndCommit ==
    /\ tx.stage = "historical"
    /\ SetDurable(InsertAllHistorical(tx.w, tx.historicalRecordsToAdd))
    /\ tx' = NoTx(tx.before)
    /\ lastOp' = "process"
    /\ UNCHANGED <<now, ticks, actuals, nextId>>
    /\ UNCHANGED <<leaseVars, auxVars, netVars>>

\* the process dies inside applyAccuracyUpdatesAndDelete
Crash ==
    /\ tx.stage \in {"delete", "historical"}
    /\ SetDurable(Rollback(Durable, tx.w))
    /\ tx' = NoTx(tx.before)
    /\ lastOp' = "crash"
    /\ UNCHANGED <<now, ticks, actuals, nextId>>
    /\ UNCHANGED <<leaseVars, auxVars, netVars>>

\* faulty variant: the prune also empties the score table
ClearOldDataAndScores ==
    LET cutoff == now - ACCURACY_STALE_FORECAST_HOURS
    IN  /\ tx.stage = "none"
        /\ pending' = {f \in pending : ~(f.targetTime <= cutoff)}
        /\ actuals' = {a \in actuals : ~(a.time <= cutoff)}
        /\ history' = {h \in history : ~(h.rec.targetTime <= cutoff)}
        /\ scores' = [b \in Buckets |-> NULL]
        /\ lastOp' = "other"
        /\ UNCHANGED <<now, ticks, nextId, nextHistId, tx, audit>>
        /\ UNCHANGED <<leaseVars, auxVars, netVars>>

\* clearOldData(staleCutoff)
ClearOldData ==
    LET cutoff == now - ACCURACY_STALE_FORECAST_HOURS
        stale == {f \in pending : f.targetTime <= cutoff}
    IN  /\ tx.stage = "none"
        /\ pending' = pending \ stale
        /\ actuals' = {a \in actuals : ~(a.time <= cutoff)}
        /\ history' = {h \in history : ~(h.rec.targetTime <= cutoff)}
        /\ audit' = [audit EXCEPT !.rows = [i \in RowIds |->
                        IF \E f \in stale : f.id = i
                        THEN [@[i] EXCEPT !.fate = "prune"] ELSE @[i]]]
        /\ lastOp' = "other"
        /\ UNCHANGED <<now, ticks, scores, nextId, nextHistId, tx>>
        /\ UNCHANGED <<leaseVars, auxVars, netVars>>

\* clearAccuracyData
ClearAccuracyData ==
    /\ tx.stage = "none"
    /\ scores' = [b \in Buckets |-> NULL]
    /\ pending' = {}
    /\ actuals' = {}
    /\ history' = {}
    /\ audit' = [rows |-> [i \in RowIds |->
                      IF \E f \in pending : f.id = i
                      THEN [audit.rows[i] EXCEPT !.fate = "reset"] ELSE audit.rows[i]],
                 buckets |-> [b \in Buckets |-> [n |-> 0, sum |-> 0]]]
    /\ lastOp' = "reset"
    /\ UNCHANGED <<now, ticks, nextId, nextHistId, tx>>
    /\ UNCHANGED <<leaseVars, auxVars, netVars>>

Next ==
    \/ \E d \in TickHours : Tick(d)
    \/ \E l \in Locations, off \in ArchiveOffsets, vals \in [Metrics -> ActualValues] :
          SyncActualWeather(l, off, vals)
    \/ \E p \in ForecastPoints, off \in TargetOffsets :
          StoreFutureForecasts(p.locationId, p.modelKey, p.metricKey, off,
                               now + off - p.lead, p.value)
    \/ ProcessPastForecasts
    \/ ClearOldData
    \/ ClearAccuracyData

\* an hour passes; the clock is followed for as long as a pending row is
\* not yet due
DrainTick ==
    /\ tx.stage = "none"
    /\ \E f \in pending : f.targetTime > now - 1
    /\ now' = now + 1
    /\ lastOp' = "other"
    /\ UNCHANGED <<ticks, pending, actuals, history, scores, nextId, nextHistId, tx, audit>>
    /\ UNCHANGED <<leaseVars, auxVars, netVars>>

\* target hours of the forecasts stored, relative to the current hour
DrainOffsets == {-1, 2}

\* the steps of the update cycles as the hours pass, cycle after cycle
DrainNext ==
    \/ DrainTick
    \/ \E off \in ArchiveOffsets, vals \in [Metrics -> ActualValues] :
          SyncActualWeather(BasePoint.locationId, off, vals)
    \/ \E lead \in {0, 1, 30}, off \in DrainOffsets :
          StoreFutureForecasts(BasePoint.locationId, BasePoint.modelKey,
                               BasePoint.metricKey, off, now + off - lead, BasePoint.value)
    \/ ProcessPastForecasts
    \/ ClearOldData

\* no pending row is due
NothingDue == getDuePendingForecasts(pending, now - 1) = {}

\* time passes, and update cycles keep running: while a row is due
\* processPastForecasts is run again, and clearOldData is run again and again
DrainFairness ==
    /\ WF_vars(DrainTick)
    /\ ([]<>NothingDue \/ []<><<ProcessPastForecasts>>_vars)
    /\ WF_vars(ClearOldData)

\* applyAccuracyUpdatesAndDelete called with a list of updates alone
ApplyAccuracyUpdates(updates) ==
    /\ tx.stage = "none"
    /\ TotalUpdates + Len(updates) <= MaxUpdates
    /\ SetDurable(InsertAllHistorical(
                     DeletePending(ApplyScoreUpdates(Durable, updates), {}), <<>>))
    /\ lastOp' = "process"
    /\ UNCHANGED <<now, ticks, actuals, nextId, tx>>
    /\ UNCHANGED <<leaseVars, auxVars, netVars>>

\* the score table under lists of updates of any content, order and split
ScoresNext ==
    \/ \E u \in UpdateInputs : ApplyAccuracyUpdates(<<u>>)
    \/ \E u1, u2 \in UpdateInputs : ApplyAccuracyUpdates(<<u1, u2>>)

\* a metric of a score record that has just been created
ZeroIntervals == [i \in Intervals |-> [meanAbsoluteError |-> <<0, 1>>, hoursTracked |-> 0]]

\* IndexedDB applyAccuracyUpdatesAndDelete, one turn of updates.forEach: the
\* record of (locationId, modelKey) is taken from scoreMap or created, the
\* metric is filled with zeros if new, and the interval is folded
IdbScoreUpdate(store, u) ==
    LET key == <<u.locationId, u.modelKey>>
        score == IF store[key] = NULL THEN [scores |-> [m \in Metrics |-> NULL]]
                 ELSE TheValue(store[key])
        ofMetric == IF score.scores[u.metricKey] = NULL THEN ZeroIntervals
                    ELSE TheValue(score.scores[u.metricKey])
        currentData == ofMetric[u.interval]
        n == currentData.meanAbsoluteError[1]
        d == currentData.meanAbsoluteError[2]
        newHoursTracked == currentData.hoursTracked + 1
        updated == [meanAbsoluteError |->
                        Norm(n * currentData.hoursTracked + u.error * d, d * newHoursTracked),
                    hoursTracked |-> newHoursTracked]
    IN  [store EXCEPT ![key] =
            Some([score EXCEPT !.scores[u.metricKey] =
                     Some([ofMetric EXCEPT ![u.interval] = updated])])]

RECURSIVE IdbApplyUpdates(_, _)
IdbApplyUpdates(store, updates) ==
    IF updates = <<>> THEN store
    ELSE IdbApplyUpdates(IdbScoreUpdate(store, Head(updates)), Tail(updates))

\* faulty variant: an interval without a row is not read as 0 / 0
getAccuracyScoresSparse(sc) ==
    [k \in Locations \X Models |->
        IF \A m \in Metrics, i \in Intervals : sc[<<k[1], k[2], m, i>>] = NULL THEN NULL
        ELSE Some([scores |-> [m \in Metrics |->
                 IF \A i \in Intervals : sc[<<k[1], k[2], m, i>>] = NULL THEN NULL
                 ELSE Some([i \in Intervals |->
                          IF sc[<<k[1], k[2], m, i>>] = NULL
                          THEN [meanAbsoluteError |-> <<0, 1>>, hoursTracked |-> -1]
                          ELSE TheValue(sc[<<k[1], k[2], m, i>>])])]])]

\* SQLite getAccuracyScores: the rows of accuracy_scores gathered per
\* (locationId, modelKey); a metric with a row gets zeros for the intervals
\* that have none
getAccuracyScores(sc) ==
    [k \in Locations \X Models |->
        IF \A m \in Metrics, i \in Intervals : sc[<<k[1], k[2], m, i>>] = NULL THEN NULL
        ELSE Some([scores |-> [m \in Metrics |->
                 IF \A i \in Intervals : sc[<<k[1], k[2], m, i>>] = NULL THEN NULL
                 ELSE Some([i \in Intervals |->
                          IF sc[<<k[1], k[2], m, i>>] = NULL
                          THEN [meanAbsoluteError |-> <<0, 1>>, hoursTracked |-> 0]
                          ELSE TheValue(sc[<<k[1], k[2], m, i>>])])]])]

\* the same batch given to applyAccuracyUpdatesAndDelete of both adapters
ApplyOnBothAdapters(updates) ==
    /\ tx.stage = "none"
    /\ TotalUpdates + Len(updates) <= MaxUpdates
    /\ SetDurable(InsertAllHistorical(
                     DeletePending(ApplyScoreUpdates(Durable, updates), {}), <<>>))
    /\ idbScores' = IdbApplyUpdates(idbScores, updates)
    /\ lastOp' = "process"
    /\ UNCHANGED <<now, ticks, actuals, nextId, tx>>
    /\ UNCHANGED <<leaseVars, auxVars, queueVars, fanVars, procVars, cacheVars, passVars, runVars>>

\* the updates given to both adapters: errors 0.5 and 1.5 of one model, any
\* location and metric, first or last interval
LayoutInputs ==
    {[locationId |-> l, modelKey |-> "gfs_global", metricKey |-> k,
      error |-> e, interval |-> i, src |-> 1] :
        l \in Locations, k \in Metrics, e \in {1, 3}, i \in {"24h", "5d"}}

LayoutsNext ==
    \/ \E u \in LayoutInputs : ApplyOnBothAdapters(<<u>>)
    \/ \E u1, u2 \in LayoutInputs : ApplyOnBothAdapters(<<u1, u2>>)

\* processPastForecasts of call p up to its await of
\* applyAccuracyUpdatesAndDelete: the due rows and the actuals are read and
\* the three lists are built; with no due row the call returns
PassRead(p) ==
    LET due == getDuePendingForecasts(pending, now - 1)
    IN  /\ tx.stage = "none"
        /\ passes[p] = NULL
        /\ passes' = [passes EXCEPT ![p] =
              IF due = {} THEN NULL
              ELSE Some([updates |-> Updates(due, actuals),
                         idsToDelete |-> IdsToDelete(due),
                         historicalRecordsToAdd |-> HistoricalRecordsToAdd(due, actuals)])]
        /\ lastOp' = "other"
        /\ UNCHANGED <<now, ticks, pending, actuals, history, scores, nextId, nextHistId,
                       tx, audit>>
        /\ UNCHANGED <<leaseVars, auxVars, queueVars, fanVars, procVars, cacheVars, idbVars, runVars>>

\* applyAccuracyUpdatesAndDelete of call p with the lists it built: one
\* transaction on the tables as they are now
PassApply(p) ==
    /\ tx.stage = "none"
    /\ passes[p] # NULL
    /\ SetDurable(InsertAllHistorical(
                     DeletePending(ApplyScoreUpdates(Durable, TheValue(passes[p]).updates),
                                   TheValue(passes[p]).idsToDelete),
                     TheValue(passes[p]).historicalRecordsToAdd))
    /\ passes' = [passes EXCEPT ![p] = NULL]
    /\ lastOp' = "process"
    /\ UNCHANGED <<now, ticks, actuals, nextId, tx>>
    /\ UNCHANGED <<leaseVars, auxVars, queueVars, fanVars, procVars, cacheVars, idbVars, runVars>>

\* two processPastForecasts calls over the same tables, each in two steps
OverlapNext ==
    \/ \E p \in Passes : PassRead(p)
    \/ \E p \in Passes : PassApply(p)

\* the engine on tables with content: storing and passes as the clock advances
TablesNext ==
    \/ \E d \in TickHours : Tick(d)
    \/ \E p \in ForecastPoints, off \in TargetOffsets :
          StoreFutureForecasts(p.locationId, p.modelKey, p.metricKey, off,
                               now + off - p.lead, p.value)
    \/ ProcessPastForecasts

\* one hour of the engine, with the process dying inside the transaction
CrashNext ==
    \/ \E l \in Locations, off \in ArchiveOffsets, vals \in [Metrics -> ActualValues] :
          SyncActualWeather(l, off, vals)
    \/ \E p \in ForecastPoints, off \in TargetOffsets :
          StoreFutureForecasts(p.locationId, p.modelKey, p.metricKey, off,
                               now + off - p.lead, p.value)
    \/ ApplyBegin
    \/ ApplyDelete
    \/ ApplyHistoricalAndCommit
    \/ Crash

----------------------------------------------------------------------------
\* fullUpdateCycle, one step at a time; a storage call of a step may throw

\* the first failure of the cycle
FirstFailure(s) == IF failedAt = "none" THEN s ELSE failedAt

\* faulty variant: the first two steps are not awaited, reconciliation is the
\* first step to run
CycleStartReconcilesFirst ==
    /\ step = "idle"
    /\ tx.stage = "none"
    /\ cyclesDone < MaxCycles
    /\ step' = "process"
    /\ failedAt' = "none"
    /\ UNCHANGED <<cyclesDone, added>>
    /\ UNCHANGED <<reconVars, leaseVars, netVars>>

\* fullUpdateCycle is called
CycleStart ==
    /\ step = "idle"
    /\ tx.stage = "none"
    /\ cyclesDone < MaxCycles
    /\ step' = "sync"
    /\ failedAt' = "none"
    /\ UNCHANGED <<cyclesDone, added>>
    /\ UNCHANGED <<reconVars, leaseVars, netVars>>

\* syncActualWeather: a throw of getLatestActualWeatherTime or addActualWeather
\* is caught by the try of the location loop, and the function returns normally
CycleSync(locationId, off, vals, throws) ==
    LET latest == getLatestActualWeatherTime(actuals, locationId)
        startTime == IF latest # NULL THEN TheValue(latest) + 1
                     ELSE now - 14 * 24
        endTime == now - 1
        record == [locationId |-> locationId, time |-> now + off, vals |-> vals]
    IN  /\ step = "sync"
        /\ actuals' = IF throws \/ startTime >= endTime \/ record.time < startTime
                      THEN actuals
                      ELSE addActualWeather(actuals, record)
        /\ failedAt' = IF throws THEN FirstFailure("sync") ELSE failedAt
        /\ step' = "store"
        /\ lastOp' = "other"
        /\ UNCHANGED <<now, ticks, pending, history, scores, nextId, nextHistId, tx, audit>>
        /\ UNCHANGED <<cyclesDone, added>>
        /\ UNCHANGED <<leaseVars, netVars>>

\* storeFutureForecasts: a throw of addPendingForecasts is caught by the try of
\* the location loop, and the function returns normally.  Once MaxRows rows
\* have been stored the upstream answers with no hourly data.
CycleStore(locationId, modelKey, metricKey, off, generationTime, value, throws) ==
    LET targetTime == now + off
        forecastLeadTimeHours == targetTime - generationTime
        forecastsToAdd ==
            IF nextId > MaxRows THEN {}
            ELSE IF targetTime > now + ACCURACY_MAX_FORECAST_HOURS THEN {}
            ELSE IF forecastLeadTimeHours < ACCURACY_FORECAST_START_HOUR THEN {}
            ELSE {[id |-> nextId, locationId |-> locationId, modelKey |-> modelKey,
                   metricKey |-> metricKey, targetTime |-> targetTime,
                   forecastedValue |-> value,
                   forecastLeadTimeHours |-> forecastLeadTimeHours]}
        stored == IF throws THEN {} ELSE forecastsToAdd
    IN  /\ step = "store"
        /\ pending' = pending \cup stored
        /\ nextId' = nextId + Cardinality(stored)
        /\ failedAt' = IF throws THEN FirstFailure("store") ELSE failedAt
        /\ step' = "process"
        /\ lastOp' = "other"
        /\ UNCHANGED <<now, ticks, actuals, history, scores, nextHistId, tx, audit>>
        /\ UNCHANGED <<cyclesDone, added>>
        /\ UNCHANGED <<leaseVars, netVars>>

\* processPastForecasts: a throw of the adapter leaves the function and is
\* caught by the try of fullUpdateCycle, which ends the cycle
CycleProcess(throws) ==
    /\ step = "process"
    /\ IF throws
       THEN /\ UNCHANGED <<pending, history, scores, nextHistId, audit>>
            /\ step' = "idle"
            /\ cyclesDone' = cyclesDone + 1
            /\ lastOp' = "other"
       ELSE /\ SetDurable(PassResult(Durable, actuals, now))
            /\ step' = "prune"
            /\ cyclesDone' = cyclesDone
            /\ lastOp' = "process"
    /\ failedAt' = IF throws THEN FirstFailure("process") ELSE failedAt
    /\ UNCHANGED <<now, ticks, actuals, nextId, tx, added>>
    /\ UNCHANGED <<leaseVars, netVars>>

\* clearOldData(staleCutoff), the last step; a throw is caught by the try of
\* fullUpdateCycle
CyclePrune(throws) ==
    LET cutoff == now - ACCURACY_STALE_FORECAST_HOURS
        stale == IF throws THEN {} ELSE {f \in pending : f.targetTime <= cutoff}
    IN  /\ step = "prune"
        /\ pending' = pending \ stale
        /\ actuals' = IF throws THEN actuals ELSE {a \in actuals : ~(a.time <= cutoff)}
        /\ history' = IF throws THEN history
                      ELSE {h \in history : ~(h.rec.targetTime <= cutoff)}
        /\ audit' = [audit EXCEPT !.rows = [i \in RowIds |->
                        IF \E f \in stale : f.id = i
                        THEN [@[i] EXCEPT !.fate = "prune"] ELSE @[i]]]
        /\ failedAt' = IF throws THEN FirstFailure("prune") ELSE failedAt
        /\ step' = "idle"
        /\ cyclesDone' = cyclesDone + 1
        /\ lastOp' = "other"
        /\ UNCHANGED <<now, ticks, scores, nextId, nextHistId, tx, added>>
        /\ UNCHANGED <<leaseVars, netVars>>

\* handleResetData: clearAccuracyData between cycles
CycleReset ==
    /\ step = "idle"
    /\ cyclesDone > 0
    /\ scores' = [b \in Buckets |-> NULL]
    /\ pending' = {}
    /\ actuals' = {}
    /\ history' = {}
    /\ audit' = [rows |-> [i \in RowIds |->
                      IF \E f \in pending : f.id = i
                      THEN [audit.rows[i] EXCEPT !.fate = "reset"] ELSE audit.rows[i]],
                 buckets |-> [b \in Buckets |-> [n |-> 0, sum |-> 0]]]
    /\ lastOp' = "reset"
    /\ cyclesDone' = 0
    /\ UNCHANGED <<now, ticks, nextId, nextHistId, tx>>
    /\ UNCHANGED <<step, failedAt, added>>
    /\ UNCHANGED <<leaseVars, netVars>>

\* the clock advances between cycles
CycleTick(d) ==
    /\ step = "idle"
    /\ ticks < MaxTicks
    /\ now' = now + d
    /\ ticks' = ticks + 1
    /\ lastOp' = "other"
    /\ UNCHANGED <<pending, actuals, history, scores, nextId, nextHistId, tx, audit>>
    /\ UNCHANGED <<leaseVars, auxVars, netVars>>

\* what the upstream answers in a cycle: the archive with a record of the
\* last hour or the next, the model with the temperature of an hour already
\* past or still to come, in a response whose generation time gives lead 0, 1 or 30
CycleActualValues ==
    {[k \in Metrics |-> Some(1)],
     [k \in Metrics |-> IF k = "temperature_2m" THEN NULL ELSE Some(1)]}

CyclePoints == {[BasePoint EXCEPT !.lead = l] : l \in {0, 1, 30}}

CycleOffsets == {-1, 1}

CycleNext ==
    \/ CycleStart
    \/ \E off \in ArchiveOffsets, vals \in CycleActualValues, throws \in BOOLEAN :
          CycleSync(BasePoint.locationId, off, vals, throws)
    \/ \E p \in CyclePoints, off \in CycleOffsets, throws \in BOOLEAN :
          CycleStore(p.locationId, p.modelKey, p.metricKey, off,
                     now + off - p.lead, p.value, throws)
    \/ \E throws \in BOOLEAN : CycleProcess(throws)
    \/ \E throws \in BOOLEAN : CyclePrune(throws)
    \/ CycleReset
    \/ \E d \in TickHours : CycleTick(d)

----------------------------------------------------------------------------
\* areAccuracyStoresEmpty: no pending row and no actual record
areAccuracyStoresEmpty(rows, acts) == rows = {} /\ acts = {}

----------------------------------------------------------------------------
\* addActualWeather called with any records, in any order

AddActualWeather(record) ==
    /\ Len(added) < MaxAdds
    /\ actuals' = addActualWeather(actuals, record)
    /\ added' = Append(added, record)
    /\ lastOp' = "other"
    /\ UNCHANGED <<now, ticks, pending, history, scores, nextId, nextHistId, tx, audit>>
    /\ UNCHANGED <<step, failedAt, cyclesDone>>
    /\ UNCHANGED <<leaseVars, netVars>>

ActualsNext == \E r \in TableActualRecords : AddActualWeather(r)

----------------------------------------------------------------------------
\* Lease manager: getLease / setLease of the two adapters

\* SQLite: SELECT * FROM leader_lease WHERE id = ?; mock: always null
getLease(row) == IF adapter = "mock" THEN NULL ELSE row

\* SQLite: INSERT ... ON CONFLICT(id) DO UPDATE; mock: stores nothing
setLease(row, new) == IF adapter = "mock" THEN row ELSE Some(new)

\* faulty variant: a row exactly LEASE_DURATION old counts as expired
AcquirableAtDuration(l, i, t) ==
    \/ l = NULL
    \/ t - TheValue(l).timestamp >= LEASE_DURATION
    \/ TheValue(l).holderId = i

\* the test of acquireLease on the row it read, at the time it sampled
Acquirable(l, i, t) ==
    \/ l = NULL
    \/ t - TheValue(l).timestamp > LEASE_DURATION
    \/ TheValue(l).holderId = i

\* clock advances, in seconds
LeaseTickSeconds == {90, 91, 3601}

LeaseTick(d) ==
    /\ lticks < MaxLeaseTicks
    /\ clock' = clock + d
    /\ lticks' = lticks + 1
    /\ UNCHANGED <<adapter, lease, lastCheck, pc, seen, tnow, isLeader, leaseInterval,
                   rpc, mpc, cycle, ret>>
    /\ UNCHANGED <<reconVars, auxVars, netVars>>

\* checkAndRunHourlyUpdate is called in instance i
CheckStart(i) ==
    /\ pc[i] = "idle"
    /\ pc' = [pc EXCEPT ![i] = "acquire"]
    /\ ret' = [ret EXCEPT ![i] = "none"]
    /\ UNCHANGED <<adapter, clock, lticks, lease, lastCheck, seen, tnow, isLeader,
                   leaseInterval, rpc, mpc, cycle>>
    /\ UNCHANGED <<reconVars, auxVars, netVars>>

\* faulty variant: checkAndRunHourlyUpdate goes on after acquireLease returned false
AcquireReadGoesOn(i) ==
    LET l == getLease(lease)
    IN  /\ pc[i] = "acquire"
        /\ seen' = [seen EXCEPT ![i] = l]
        /\ tnow' = [tnow EXCEPT ![i] = clock]
        /\ IF Acquirable(l, i, clock)
           THEN /\ pc' = [pc EXCEPT ![i] = "setLease"]
                /\ UNCHANGED <<ret, isLeader>>
           ELSE /\ pc' = [pc EXCEPT ![i] = "initialSetup"]
                /\ ret' = [ret EXCEPT ![i] = "false"]
                /\ isLeader' = [isLeader EXCEPT ![i] = FALSE]
        /\ UNCHANGED <<adapter, clock, lticks, lease, lastCheck, leaseInterval, rpc, mpc, cycle>>
        /\ UNCHANGED <<reconVars, auxVars, netVars>>

\* acquireLease: getLease, Date.now() and the test; on failure the return of
\* false, isLeader = false and the return of checkAndRunHourlyUpdate
AcquireRead(i) ==
    LET l == getLease(lease)
    IN  /\ pc[i] = "acquire"
        /\ seen' = [seen EXCEPT ![i] = l]
        /\ tnow' = [tnow EXCEPT ![i] = clock]
        /\ IF Acquirable(l, i, clock)
           THEN /\ pc' = [pc EXCEPT ![i] = "setLease"]
                /\ UNCHANGED <<ret, isLeader>>
           ELSE /\ pc' = [pc EXCEPT ![i] = "idle"]
                /\ ret' = [ret EXCEPT ![i] = "false"]
                /\ isLeader' = [isLeader EXCEPT ![i] = FALSE]
        /\ UNCHANGED <<adapter, clock, lticks, lease, lastCheck, leaseInterval, rpc, mpc, cycle>>
        /\ UNCHANGED <<reconVars, auxVars, netVars>>

\* acquireLease: setLease and the return of true; isLeader = true and the
\* renewal timer is (re)started
AcquireWrite(i) ==
    /\ pc[i] = "setLease"
    /\ lease' = setLease(lease, [holderId |-> i, timestamp |-> tnow[i]])
    /\ ret' = [ret EXCEPT ![i] = "true"]
    /\ isLeader' = [isLeader EXCEPT ![i] = TRUE]
    /\ leaseInterval' = [leaseInterval EXCEPT ![i] = TRUE]
    /\ pc' = [pc EXCEPT ![i] = "initialSetup"]
    /\ UNCHANGED <<adapter, clock, lticks, lastCheck, seen, tnow, rpc, mpc, cycle>>
    /\ UNCHANGED <<reconVars, auxVars, netVars>>

\* initialSetup: areAccuracyStoresEmpty (always true in the mock), and the
\* seeding cycle if so; the locals of the finished acquireLease are dropped.
\* seeded is bookkeeping: this call has run the seeding cycle
InitialSetup(i, storesAreEmpty) ==
    /\ pc[i] = "initialSetup"
    /\ adapter = "mock" => storesAreEmpty
    /\ IF storesAreEmpty
       THEN /\ cycle' = [cycle EXCEPT ![i] = @ \cup {"seed"}]
            /\ pc' = [pc EXCEPT ![i] = "seeding"]
            /\ seeded' = [seeded EXCEPT ![i] = TRUE]
       ELSE /\ pc' = [pc EXCEPT ![i] = "lastCheck"]
            /\ UNCHANGED <<cycle, seeded>>
    /\ seen' = [seen EXCEPT ![i] = NULL]
    /\ tnow' = [tnow EXCEPT ![i] = 0]
    /\ ret' = [ret EXCEPT ![i] = "none"]
    /\ UNCHANGED <<adapter, clock, lticks, lease, lastCheck, isLeader,
                   leaseInterval, rpc, mpc>>
    /\ UNCHANGED <<reconVars, auxVars, queueVars, fanVars, procVars, cacheVars, idbVars, passVars>>

\* the seeding cycle of initialSetup finishes
SeedFinish(i) ==
    /\ pc[i] = "seeding"
    /\ cycle' = [cycle EXCEPT ![i] = @ \ {"seed"}]
    /\ pc' = [pc EXCEPT ![i] = "lastCheck"]
    /\ UNCHANGED <<adapter, clock, lticks, lease, lastCheck, seen, tnow, isLeader,
                   leaseInterval, rpc, mpc, ret>>
    /\ UNCHANGED <<reconVars, auxVars, netVars>>

\* now = Date.now(); getLease('last-accuracy-check'); the hourly cycle starts
\* if there is no such row or it is older than one hour
LastCheck(i) ==
    LET l == getLease(lastCheck)
    IN  /\ pc[i] = "lastCheck"
        /\ IF l = NULL \/ clock - TheValue(l).timestamp > OneHour
           THEN /\ cycle' = [cycle EXCEPT ![i] = @ \cup {"hourly"}]
                /\ tnow' = [tnow EXCEPT ![i] = clock]
                /\ pc' = [pc EXCEPT ![i] = "cycle"]
           ELSE /\ pc' = [pc EXCEPT ![i] = "idle"]
                /\ UNCHANGED <<cycle, tnow>>
        /\ UNCHANGED <<adapter, clock, lticks, lease, lastCheck, seen, isLeader,
                       leaseInterval, rpc, mpc, ret>>
        /\ seeded' = [seeded EXCEPT ![i] = FALSE]
        /\ UNCHANGED <<reconVars, auxVars, queueVars, fanVars, procVars, cacheVars, idbVars, passVars>>

\* the hourly cycle finishes; setLease('last-accuracy-check', now)
CycleFinish(i) ==
    /\ pc[i] = "cycle"
    /\ cycle' = [cycle EXCEPT ![i] = @ \ {"hourly"}]
    /\ lastCheck' = setLease(lastCheck, [holderId |-> 0, timestamp |-> tnow[i]])
    /\ tnow' = [tnow EXCEPT ![i] = 0]
    /\ pc' = [pc EXCEPT ![i] = "idle"]
    /\ UNCHANGED <<adapter, clock, lticks, lease, seen, isLeader, leaseInterval,
                   rpc, mpc, ret>>
    /\ UNCHANGED <<reconVars, auxVars, netVars>>

\* faulty variant: a renewal that finds the lease lost leaves its timer running
RenewReadKeepsTimer(i) ==
    LET l == getLease(lease)
    IN  /\ leaseInterval[i]
        /\ rpc[i] = "idle"
        /\ IF l # NULL /\ TheValue(l).holderId = i
           THEN /\ rpc' = [rpc EXCEPT ![i] = "setLease"]
                /\ UNCHANGED <<leaseInterval, isLeader>>
           ELSE /\ isLeader' = [isLeader EXCEPT ![i] = FALSE]
                /\ UNCHANGED <<rpc, leaseInterval>>
        /\ UNCHANGED <<adapter, clock, lticks, lease, lastCheck, pc, seen, tnow, mpc,
                       cycle, ret>>
        /\ UNCHANGED <<reconVars, auxVars, netVars>>

\* the renewal timer of instance i fires: renewLease up to its getLease; a
\* lease that is missing or held by another stops the timer
RenewRead(i) ==
    LET l == getLease(lease)
    IN  /\ leaseInterval[i]
        /\ rpc[i] = "idle"
        /\ IF l # NULL /\ TheValue(l).holderId = i
           THEN /\ rpc' = [rpc EXCEPT ![i] = "setLease"]
                /\ UNCHANGED <<leaseInterval, isLeader>>
           ELSE /\ leaseInterval' = [leaseInterval EXCEPT ![i] = FALSE]
                /\ isLeader' = [isLeader EXCEPT ![i] = FALSE]
                /\ UNCHANGED rpc
        /\ UNCHANGED <<adapter, clock, lticks, lease, lastCheck, pc, seen, tnow, mpc,
                       cycle, ret>>
        /\ UNCHANGED <<reconVars, auxVars, netVars>>

\* renewLease: setLease with Date.now()
RenewWrite(i) ==
    /\ rpc[i] = "setLease"
    /\ lease' = setLease(lease, [holderId |-> i, timestamp |-> clock])
    /\ rpc' = [rpc EXCEPT ![i] = "idle"]
    /\ UNCHANGED <<adapter, clock, lticks, lastCheck, pc, seen, tnow, isLeader,
                   leaseInterval, mpc, cycle, ret>>
    /\ UNCHANGED <<reconVars, auxVars, netVars>>

\* POST /full-cycle: runFullAccuracyCycleNow starts fullUpdateCycle
ManualStart(i) ==
    /\ mpc[i] = "idle"
    /\ cycle' = [cycle EXCEPT ![i] = @ \cup {"manual"}]
    /\ mpc' = [mpc EXCEPT ![i] = "cycle"]
    /\ UNCHANGED <<adapter, clock, lticks, lease, lastCheck, pc, seen, tnow, isLeader,
                   leaseInterval, rpc, ret>>
    /\ UNCHANGED <<reconVars, auxVars, netVars>>

\* the manual cycle finishes; setLease('last-accuracy-check', Date.now())
ManualFinish(i) ==
    /\ mpc[i] = "cycle"
    /\ cycle' = [cycle EXCEPT ![i] = @ \ {"manual"}]
    /\ lastCheck' = setLease(lastCheck, [holderId |-> 0, timestamp |-> clock])
    /\ mpc' = [mpc EXCEPT ![i] = "idle"]
    /\ UNCHANGED <<adapter, clock, lticks, lease, seen, tnow, isLeader, leaseInterval,
                   rpc, pc, ret>>
    /\ UNCHANGED <<reconVars, auxVars, netVars>>

LeaseNext ==
    \/ \E d \in LeaseTickSeconds : LeaseTick(d)
    \/ \E i \in Instances : CheckStart(i)
    \/ \E i \in Instances : AcquireRead(i)
    \/ \E i \in Instances : AcquireWrite(i)
    \/ \E i \in Instances, e \in BOOLEAN : InitialSetup(i, e)
    \/ \E i \in Instances : SeedFinish(i)
    \/ \E i \in Instances : LastCheck(i)
    \/ \E i \in Instances : CycleFinish(i)
    \/ \E i \in Instances : RenewRead(i)
    \/ \E i \in Instances : RenewWrite(i)
    \/ \E i \in Instances : ManualStart(i)
    \/ \E i \in Instances : ManualFinish(i)

\* the process of instance i dies or stalls for good: its renewal timer and
\* its calls stop where they are; the lease row stays as it is. One instance
\* stops, the other goes on.
LeaderStops(i) ==
    /\ \A j \in Instances : pc[j] # "stopped"
    /\ pc' = [pc EXCEPT ![i] = "stopped"]
    /\ rpc' = [rpc EXCEPT ![i] = "idle"]
    /\ leaseInterval' = [leaseInterval EXCEPT ![i] = FALSE]
    /\ cycle' = [cycle EXCEPT ![i] = {}]
    /\ UNCHANGED <<adapter, clock, lticks, lease, lastCheck, seen, tnow, isLeader,
                   mpc, ret>>
    /\ UNCHANGED <<reconVars, auxVars, netVars>>

\* the calls of checkAndRunHourlyUpdate of instance i, from acquireLease to
\* its return
CheckSteps(i) ==
    \/ CheckStart(i)
    \/ AcquireRead(i)
    \/ AcquireWrite(i)
    \/ \E e \in BOOLEAN : InitialSetup(i, e)
    \/ SeedFinish(i)
    \/ LastCheck(i)
    \/ CycleFinish(i)

\* the lease manager with an instance that may stop
StaleNext ==
    \/ \E d \in LeaseTickSeconds : LeaseTick(d)
    \/ \E i \in Instances : CheckSteps(i)
    \/ \E i \in Instances : RenewRead(i)
    \/ \E i \in Instances : RenewWrite(i)
    \/ \E i \in Instances : LeaderStops(i)

\* the data collection calls checkAndRunHourlyUpdate again and again, and a
\* call that has started runs to its return
StaleFairness == \A i \in Instances : WF_vars(CheckSteps(i))

\* over the mock adapter getLease is always null, so renewLease never reaches
\* its setLease
MockNext ==
    \/ \E d \in LeaseTickSeconds : LeaseTick(d)
    \/ \E i \in Instances : CheckStart(i)
    \/ \E i \in Instances : AcquireRead(i)
    \/ \E i \in Instances : AcquireWrite(i)
    \/ \E i \in Instances, e \in BOOLEAN : InitialSetup(i, e)
    \/ \E i \in Instances : SeedFinish(i)
    \/ \E i \in Instances : LastCheck(i)
    \/ \E i \in Instances : CycleFinish(i)
    \/ \E i \in Instances : RenewRead(i)
    \/ \E i \in Instances : ManualStart(i)
    \/ \E i \in Instances : ManualFinish(i)

----------------------------------------------------------------------------
\* The fetch queue: queuedFetch and processQueue

\* the module state of the queue as one value
QueueState ==
    [requestQueue |-> requestQueue, isProcessingQueue |-> isProcessingQueue,
     qpc |-> qpc, inflight |-> inflight, completion |-> completion, loops |-> loops,
     lastDispatch |-> lastDispatch, enqueued |-> enqueued, dispatched |-> dispatched]

SetQueueState(q) ==
    /\ requestQueue' = q.requestQueue
    /\ isProcessingQueue' = q.isProcessingQueue
    /\ qpc' = q.qpc
    /\ inflight' = q.inflight
    /\ completion' = q.completion
    /\ loops' = q.loops
    /\ lastDispatch' = q.lastDispatch
    /\ enqueued' = q.enqueued
    /\ dispatched' = q.dispatched

\* faulty variant: an if in place of the while, the loop ends after the wait
\* of its first request whatever is waiting
LoopTurnOnce(q, t) ==
    IF q.requestQueue # <<>> /\ q.qpc.at # "sleep"
    THEN [q EXCEPT !.requestQueue = Tail(@),
                   !.inflight = @ \cup {Head(q.requestQueue)},
                   !.dispatched = Append(@, Head(q.requestQueue)),
                   !.lastDispatch = Some(t),
                   !.qpc = [at |-> "fetch", since |-> t]]
    ELSE [q EXCEPT !.isProcessingQueue = FALSE,
                   !.loops = @ - 1,
                   !.qpc = [at |-> "idle", since |-> t]]

\* one turn of the while loop of processQueue at time t: shift the oldest
\* request and start its fetch, or leave the loop and clear the flag
LoopTurn(q, t) ==
    IF q.requestQueue # <<>>
    THEN [q EXCEPT !.requestQueue = Tail(@),
                   !.inflight = @ \cup {Head(q.requestQueue)},
                   !.dispatched = Append(@, Head(q.requestQueue)),
                   !.lastDispatch = Some(t),
                   !.qpc = [at |-> "fetch", since |-> t]]
    ELSE [q EXCEPT !.isProcessingQueue = FALSE,
                   !.loops = @ - 1,
                   !.qpc = [at |-> "idle", since |-> t]]

\* processQueue() up to its first await: the entry test, the flag, and the
\* first turn of the loop
processQueue(q, t) ==
    IF q.isProcessingQueue THEN q
    ELSE LoopTurn([q EXCEPT !.isProcessingQueue = TRUE, !.loops = @ + 1], t)

\* queuedFetch(url) up to the return of its promise: the push, and the call
\* of processQueue if no loop is running
queuedFetch(q, r, t) ==
    LET pushed == [q EXCEPT !.requestQueue = Append(@, r),
                            !.enqueued = Append(@, r),
                            !.completion[r] = "pending"]
    IN  IF ~pushed.isProcessingQueue THEN processQueue(pushed, t) ELSE pushed

\* a caller other than the fan-out (fetchPastWeather) calls queuedFetch
QueuedFetch(r) ==
    /\ completion[r] = "none"
    /\ SetQueueState(queuedFetch(QueueState, r, qclock))
    /\ UNCHANGED <<qclock, settles>>
    /\ UNCHANGED <<reconVars, leaseVars, auxVars, fanVars, procVars, cacheVars, idbVars, passVars, runVars>>

\* faulty variant: a failing fetch is not caught in the queued closure; the
\* rejection leaves processQueue at its await nextRequest()
FetchSettlesEscaping(r, ok) ==
    /\ r \in inflight
    /\ inflight' = inflight \ {r}
    /\ IF ok
       THEN /\ completion' = [completion EXCEPT ![r] = "resolved"]
            /\ settles' = [settles EXCEPT ![r] = @ + 1]
            /\ qpc' = [at |-> "sleep", since |-> qclock]
            /\ UNCHANGED loops
       ELSE /\ qpc' = [at |-> "idle", since |-> qclock]
            /\ loops' = loops - 1
            /\ UNCHANGED <<completion, settles>>
    /\ UNCHANGED <<requestQueue, isProcessingQueue, qclock, lastDispatch, enqueued,
                   dispatched>>
    /\ UNCHANGED <<reconVars, leaseVars, auxVars, fanVars, procVars, cacheVars, idbVars, passVars, runVars>>

\* the fetch of request r settles: the closure resolves or rejects the promise
\* of its caller and returns; processQueue starts its setTimeout
FetchSettles(r, ok) ==
    /\ r \in inflight
    /\ inflight' = inflight \ {r}
    /\ completion' = [completion EXCEPT ![r] = IF ok THEN "resolved" ELSE "rejected"]
    /\ settles' = [settles EXCEPT ![r] = @ + 1]
    /\ qpc' = [at |-> "sleep", since |-> qclock]
    /\ UNCHANGED <<requestQueue, isProcessingQueue, qclock, loops, lastDispatch,
                   enqueued, dispatched>>
    /\ UNCHANGED <<reconVars, leaseVars, auxVars, fanVars, procVars, cacheVars, idbVars, passVars, runVars>>

\* faulty variant: the loop goes on without waiting for its timer
QueueWakeAtOnce ==
    /\ qpc.at = "sleep"
    /\ SetQueueState(LoopTurn(QueueState, qclock))
    /\ UNCHANGED <<qclock, settles>>
    /\ UNCHANGED <<reconVars, leaseVars, auxVars, fanVars, procVars, cacheVars, idbVars, passVars, runVars>>

\* the timer of MIN_REQUEST_INTERVAL fires: the next turn of the loop
QueueWake ==
    /\ qpc.at = "sleep"
    /\ qclock - qpc.since >= MIN_REQUEST_INTERVAL
    /\ SetQueueState(LoopTurn(QueueState, qclock))
    /\ UNCHANGED <<qclock, settles>>
    /\ UNCHANGED <<reconVars, leaseVars, auxVars, fanVars, procVars, cacheVars, idbVars, passVars, runVars>>

\* milliseconds passing while a fetch or the timer is pending
QueueTickMillis == {100}

QueueTick(d) ==
    /\ qpc.at \in {"fetch", "sleep"}
    /\ qclock - qpc.since < MIN_REQUEST_INTERVAL
    /\ qclock' = qclock + d
    /\ UNCHANGED <<requestQueue, isProcessingQueue, qpc, inflight, completion, loops,
                   lastDispatch, enqueued, dispatched, settles>>
    /\ UNCHANGED <<reconVars, leaseVars, auxVars, fanVars, procVars, cacheVars, idbVars, passVars, runVars>>

----------------------------------------------------------------------------
\* The model fan-out of fetchAndProcessModels

\* model.name of the models of the fan-out
ModelName(m) ==
    CASE m = "icon_global" -> "ICON Global 7km"
      [] m = "gfs_global" -> "GFS 11km"
      [] m = "gem_global" -> "GEM Global 15km (GDPS)"

\* queuedFetch called for the models ms in turn
RECURSIVE EnqueueAll(_, _, _)
EnqueueAll(q, ms, t) ==
    IF ms = <<>> THEN q ELSE EnqueueAll(queuedFetch(q, Head(ms), t), Tail(ms), t)

\* modelsToFetch.map(async ...): every callback runs up to its await
\* queuedFetch(url), in the order of MODELS
FanStart ==
    /\ \A m \in FetchModelSet : fan[m] = "idle"
    /\ joined = "none"
    /\ SetQueueState(EnqueueAll(QueueState, FetchModels, qclock))
    /\ fan' = [m \in FetchModelSet |-> "fetching"]
    /\ joined' = "waiting"
    /\ UNCHANGED <<qclock, settles, successes, failures>>
    /\ UNCHANGED <<reconVars, leaseVars, auxVars, procVars, cacheVars, idbVars, passVars, runVars>>

\* faulty variant: the callback does not catch the rejection of queuedFetch,
\* so its promise rejects and Promise.all rejects with it
FanFetchedRethrows(m) ==
    /\ fan[m] = "fetching"
    /\ completion[m] \in {"resolved", "rejected"}
    /\ IF completion[m] = "rejected"
       THEN /\ joined' = "rejected"
            /\ fan' = [fan EXCEPT ![m] = "done"]
       ELSE /\ fan' = [fan EXCEPT ![m] = "body"]
            /\ UNCHANGED joined
    /\ UNCHANGED <<successes, failures>>
    /\ UNCHANGED <<reconVars, leaseVars, auxVars, queueVars, procVars, cacheVars, idbVars, passVars, runVars>>

\* the callback of model m resumes after await queuedFetch(url): with the
\* response, or in its catch with the error of the fetch
FanFetched(m) ==
    /\ fan[m] = "fetching"
    /\ completion[m] \in {"resolved", "rejected"}
    /\ IF completion[m] = "rejected"
       THEN /\ failures' = Append(failures, [modelName |-> ModelName(m),
                                              reason |-> "network"])
            /\ fan' = [fan EXCEPT ![m] = "done"]
       ELSE /\ fan' = [fan EXCEPT ![m] = "body"]
            /\ UNCHANGED failures
    /\ UNCHANGED <<successes, joined>>
    /\ UNCHANGED <<reconVars, leaseVars, auxVars, queueVars, procVars, cacheVars, idbVars, passVars, runVars>>

\* what await response.json() and the checks after it can meet
BodyOutcomes == {"ok", "badjson", "apierror", "nomodel"}

\* the callback of model m resumes after await response.json(): a body that
\* does not parse, data.error with data.reason, and a payload extractModelData
\* finds no model in all throw into the catch; otherwise successes.push
FanBody(m, outcome) ==
    /\ fan[m] = "body"
    /\ IF outcome = "ok"
       THEN /\ successes' = Append(successes, m)
            /\ UNCHANGED failures
       ELSE /\ failures' = Append(failures, [modelName |-> ModelName(m),
                                              reason |-> outcome])
            /\ UNCHANGED successes
    /\ fan' = [fan EXCEPT ![m] = "done"]
    /\ UNCHANGED joined
    /\ UNCHANGED <<reconVars, leaseVars, auxVars, queueVars, procVars, cacheVars, idbVars, passVars, runVars>>

\* await Promise.all(fetchPromises) resumes once every callback has returned
FanJoin ==
    /\ joined = "waiting"
    /\ \A m \in FetchModelSet : fan[m] = "done"
    /\ joined' = "resolved"
    /\ UNCHANGED <<fan, successes, failures>>
    /\ UNCHANGED <<reconVars, leaseVars, auxVars, queueVars, procVars, cacheVars, idbVars, passVars, runVars>>

FetchNext ==
    \/ QueuedFetch("archive")
    \/ \E r \in Requests, ok \in BOOLEAN : FetchSettles(r, ok)
    \/ QueueWake
    \/ \E d \in QueueTickMillis : QueueTick(d)
    \/ FanStart
    \/ \E m \in FetchModelSet : FanFetched(m)
    \/ \E m \in FetchModelSet, o \in BodyOutcomes : FanBody(m, o)
    \/ FanJoin

\* every fetch settles, time passes while a fetch or a timer is pending, and
\* a timer that is due fires
FetchFairness ==
    /\ WF_vars(\E r \in Requests, ok \in BOOLEAN : FetchSettles(r, ok))
    /\ WF_vars(\E d \in QueueTickMillis : QueueTick(d))
    /\ WF_vars(QueueWake)

----------------------------------------------------------------------------
\* Processing of the responses: processIndividualForecasts and
\* calculateDerivedModels, hourly view.  Values are counted in units of 0.005
\* (2.0 is 400, 0.06 is 12), so that the mean of two values is exact.

\* MODELS[].category
ModelCategory(key) ==
    CASE key = "icon_global" -> "Global"
      [] key = "gfs_global" -> "Global"
      [] key = "gem_global" -> "Canadian"
      [] OTHER -> "Derived"

\* the metrics of an hourly point that hold numbers
PointMetrics == {"temperature_2m", "rain", "snowfall"}

\* precipitation_type of one model's hour: 0 none, 1 rain, 2 mix, 3 snow
IndividualPrecipitationType(rain, snow) ==
    LET afterRain == IF rain # NULL /\ TheValue(rain) # 0 /\ TheValue(rain) > 0
                     THEN 1 ELSE 0
    IN  IF snow # NULL /\ TheValue(snow) # 0 /\ TheValue(snow) > 0
        THEN (IF afterRain = 1 THEN 2 ELSE 3)
        ELSE afterRain

\* one element of hourlyData.time.map(...)
ProcessedPoint(h) ==
    [time |-> h.time,
     temperature_2m |-> h.temperature_2m,
     rain |-> h.rain,
     snowfall |-> IF h.snowfall # NULL THEN Some(TheValue(h.snowfall) \div 10) ELSE NULL,
     precipitation_type |-> Some(IndividualPrecipitationType(h.rain, h.snowfall))]

\* processIndividualForecasts(apiResponses, 'hourly'): a response without
\* hours is skipped, the others keep their order as keys of the result
processIndividualForecasts(apiResponses) ==
    LET kept == SelectSeq(apiResponses, LAMBDA r : r.hourly # <<>>)
    IN  [k \in 1..Len(kept) |->
            [model |-> kept[k].model,
             hourly |-> [i \in 1..Len(kept[k].hourly) |-> ProcessedPoint(kept[k].hourly[i])]]]

\* faulty variant: on an even count the upper middle value is taken
MedianUpperMiddle(values) ==
    LET sorted == SortSeq(values, LAMBDA a, b : a < b)
        mid == Len(sorted) \div 2
    IN  sorted[mid + 1]

\* valuesAtTime[metric].sort((a, b) => a - b) and the pick of the middle
Median(values) ==
    LET sorted == SortSeq(values, LAMBDA a, b : a < b)
        mid == Len(sorted) \div 2
    IN  IF Len(sorted) % 2 # 0 THEN sorted[mid + 1]
        ELSE (sorted[mid] + sorted[mid + 1]) \div 2

\* faulty variant: snow above the threshold always gives snow
MedianPrecipitationTypeSnowWins(rain, snow) ==
    LET r == IF rain # NULL THEN TheValue(rain) ELSE 0
        w == IF snow # NULL THEN TheValue(snow) ELSE 0
    IN  IF w > PRECIPITATION_PRESENT THEN 3
        ELSE IF r > PRECIPITATION_PRESENT THEN 1 ELSE 0

\* precipitation_type of the median point
MedianPrecipitationType(rain, snow) ==
    LET r == IF rain # NULL THEN TheValue(rain) ELSE 0
        w == IF snow # NULL THEN TheValue(snow) ELSE 0
        afterRain == IF r > PRECIPITATION_PRESENT THEN 1 ELSE 0
    IN  IF w > PRECIPITATION_PRESENT
        THEN (IF afterRain = 1 THEN 2 ELSE 3)
        ELSE afterRain

\* forecasts[key].hourly.find(h => h.time === time)
HourData(entry, time) ==
    LET hits == {i \in 1..Len(entry.hourly) : entry.hourly[i].time = time}
    IN  IF hits = {} THEN NULL
        ELSE Some(entry.hourly[CHOOSE i \in hits : \A j \in hits : i <= j])

\* valuesAtTime[metric]: the numbers the models of modelKeys have at time,
\* in the order of modelKeys
ValuesAtTime(modelKeys, time, metric) ==
    LET found == [k \in 1..Len(modelKeys) |->
                     LET h == HourData(modelKeys[k], time)
                     IN  IF h = NULL THEN NULL ELSE TheValue(h)[metric]]
        numbers == SelectSeq(found, LAMBDA v : v # NULL)
    IN  [k \in 1..Len(numbers) |-> TheValue(numbers[k])]

\* the median point of one reference time
MedianPoint(modelKeys, time, view) ==
    LET med(metric) ==
            LET values == ValuesAtTime(modelKeys, time, metric)
            IN  IF values = <<>> THEN NULL ELSE Some(Median(values))
    IN  [time |-> time,
         temperature_2m |-> med("temperature_2m"),
         rain |-> med("rain"),
         snowfall |-> med("snowfall"),
         precipitation_type |->
             IF view = "hourly"
             THEN Some(MedianPrecipitationType(med("rain"), med("snowfall")))
             ELSE NULL]

\* calculateDerivedModels(forecasts, view): forecasts['median_model'].hourly,
\* or nothing if there is no model that is not derived
calculateDerivedModels(fc, view) ==
    LET modelKeys == SelectSeq(fc, LAMBDA e : ModelCategory(e.model) # "Derived")
        referenceTimes == [i \in 1..Len(modelKeys[1].hourly) |-> modelKeys[1].hourly[i].time]
        withValues == SelectSeq(referenceTimes,
                          LAMBDA t : \E metric \in PointMetrics \cup {"precipitation_type"} :
                                        ValuesAtTime(modelKeys, t, metric) # <<>>)
    IN  IF modelKeys = <<>> THEN NULL
        ELSE Some([i \in 1..Len(withValues) |-> MedianPoint(modelKeys, withValues[i], view)])

\* fetchForecasts: processIndividualForecasts(successes, view)
ProcessIndividualForecasts ==
    /\ forecasts = NULL
    /\ forecasts' = Some(processIndividualForecasts(responses))
    /\ UNCHANGED <<responses, derived>>
    /\ UNCHANGED <<reconVars, leaseVars, auxVars, queueVars, fanVars, cacheVars, idbVars, passVars, runVars>>

\* fetchForecasts: calculateDerivedModels(processed, view)
CalculateDerivedModels ==
    /\ forecasts # NULL
    /\ derived = NULL
    /\ derived' = calculateDerivedModels(TheValue(forecasts), "hourly")
    /\ UNCHANGED <<responses, forecasts>>
    /\ UNCHANGED <<reconVars, leaseVars, auxVars, queueVars, fanVars, cacheVars, idbVars, passVars, runVars>>

\* the hours a response may hold
TimeSeqs == {<<1, 2>>, <<1>>, <<2>>, <<>>}

\* the raw values a model may report for its hours: temperature 2.0, 4.0 or
\* 9.0, rain 0, 0.03, 0.06 or 0.1 mm, snowfall 0, 1.0 or 2.0, or nothing
RawValues ==
    {[temperature_2m |-> Some(400), rain |-> Some(12), snowfall |-> Some(0)],
     [temperature_2m |-> Some(800), rain |-> Some(0), snowfall |-> Some(400)],
     [temperature_2m |-> Some(1800), rain |-> Some(20), snowfall |-> Some(200)],
     [temperature_2m |-> Some(800), rain |-> Some(6), snowfall |-> Some(0)],
     [temperature_2m |-> Some(400), rain |-> Some(0), snowfall |-> Some(0)],
     [temperature_2m |-> NULL, rain |-> NULL, snowfall |-> NULL]}

\* the payload of model m with hours ts and values v
PayloadOf(m, ts, v) ==
    [model |-> m,
     hourly |-> [i \in 1..Len(ts) |->
                    [time |-> ts[i], temperature_2m |-> v.temperature_2m,
                     rain |-> v.rain, snowfall |-> v.snowfall]]]

Payloads(m) == {PayloadOf(m, ts, v) : ts \in TimeSeqs, v \in RawValues}

\* successes: one payload each of one, two or three models, in any order
ResponseSeqs ==
    LET orders == UNION {{f \in [1..n -> FetchModelSet] :
                             \A i, j \in 1..n : i # j => f[i] # f[j]} : n \in 1..MaxModels}
    IN  UNION {{r \in [1..Len(o) -> UNION {Payloads(m) : m \in FetchModelSet}] :
                   \A k \in 1..Len(o) : r[k].model = o[k]} : o \in orders}

InitMedian ==
    \E rs \in ResponseSeqs :
        /\ InitStores("sqlite", {}, {})
        /\ InitQueue
        /\ InitFan
        /\ InitProc(rs)
        /\ InitCache(DefaultEnv)
        /\ InitIdb
        /\ InitPasses
        /\ InitRun

MedianNext ==
    \/ ProcessIndividualForecasts
    \/ CalculateDerivedModels

----------------------------------------------------------------------------
\* checkAndRunHourlyUpdate of one instance with its fullUpdateCycle calls run
\* step by step, as the data collection calls it every 30 minutes

\* seconds between two calls: the collection interval, or more than an hour
HourlyTickSeconds == {1800, 3601}

HourlyTick(d) ==
    /\ pc[1] = "idle"
    /\ lticks < MaxLeaseTicks
    /\ clock' = clock + d
    /\ now' = now + (d \div OneHour)
    /\ lticks' = lticks + 1
    /\ lastOp' = "other"
    /\ UNCHANGED <<adapter, lease, lastCheck, pc, seen, tnow, isLeader, leaseInterval,
                   rpc, mpc, cycle, ret>>
    /\ UNCHANGED <<ticks, pending, actuals, history, scores, nextId, nextHistId, tx, audit>>
    /\ UNCHANGED <<auxVars, netVars>>

\* checkAndRunHourlyUpdate is called; no further call once more than
\* MaxCycles cycles have run
HourlyCheckStart(i) ==
    /\ cyclesDone <= MaxCycles
    /\ CheckStart(i)

\* initialSetup: areAccuracyStoresEmpty on the tables, and the call of the
\* seeding fullUpdateCycle if they are empty
HourlySetup(i) ==
    LET storesAreEmpty == areAccuracyStoresEmpty(pending, actuals)
    IN  /\ pc[i] = "initialSetup"
        /\ IF storesAreEmpty
           THEN /\ cycle' = [cycle EXCEPT ![i] = @ \cup {"seed"}]
                /\ pc' = [pc EXCEPT ![i] = "seeding"]
                /\ step' = "sync"
                /\ failedAt' = "none"
                /\ seeded' = [seeded EXCEPT ![i] = TRUE]
           ELSE /\ pc' = [pc EXCEPT ![i] = "lastCheck"]
                /\ UNCHANGED <<cycle, step, failedAt, seeded>>
        /\ seen' = [seen EXCEPT ![i] = NULL]
        /\ tnow' = [tnow EXCEPT ![i] = 0]
        /\ ret' = [ret EXCEPT ![i] = "none"]
        /\ UNCHANGED <<adapter, clock, lticks, lease, lastCheck, isLeader,
                       leaseInterval, rpc, mpc>>
        /\ UNCHANGED <<reconVars, cyclesDone, added, queueVars, fanVars, procVars, cacheVars, idbVars, passVars>>

\* the seeding cycle has returned, whether or not a step of it failed
HourlySeedFinish(i) ==
    /\ step = "idle"
    /\ SeedFinish(i)

\* now = Date.now(); getLease('last-accuracy-check'); the test, and the call
\* of fullUpdateCycle if there is no row or it is older than one hour
HourlyLastCheck(i) ==
    LET l == getLease(lastCheck)
    IN  /\ pc[i] = "lastCheck"
        /\ IF l = NULL \/ clock - TheValue(l).timestamp > OneHour
           THEN /\ cycle' = [cycle EXCEPT ![i] = @ \cup {"hourly"}]
                /\ tnow' = [tnow EXCEPT ![i] = clock]
                /\ pc' = [pc EXCEPT ![i] = "cycle"]
                /\ step' = "sync"
                /\ failedAt' = "none"
           ELSE /\ pc' = [pc EXCEPT ![i] = "idle"]
                /\ UNCHANGED <<cycle, tnow, step, failedAt>>
        /\ UNCHANGED <<adapter, clock, lticks, lease, lastCheck, seen, isLeader,
                       leaseInterval, rpc, mpc, ret>>
        /\ seeded' = [seeded EXCEPT ![i] = FALSE]
        /\ UNCHANGED <<reconVars, cyclesDone, added, queueVars, fanVars, procVars, cacheVars, idbVars, passVars>>

\* fullUpdateCycle has returned, whether or not a step of it failed;
\* setLease('last-accuracy-check', now)
HourlyCycleFinish(i) ==
    /\ step = "idle"
    /\ CycleFinish(i)

HourlyNext ==
    \/ \E d \in HourlyTickSeconds : HourlyTick(d)
    \/ HourlyCheckStart(1)
    \/ AcquireRead(1)
    \/ AcquireWrite(1)
    \/ HourlySetup(1)
    \/ HourlySeedFinish(1)
    \/ HourlyLastCheck(1)
    \/ HourlyCycleFinish(1)
    \/ \E off \in ArchiveOffsets, throws \in BOOLEAN :
          CycleSync(BasePoint.locationId, off, [k \in Metrics |-> Some(1)], throws)
    \/ \E off \in CycleOffsets, throws \in BOOLEAN :
          CycleStore(BasePoint.locationId, BasePoint.modelKey, BasePoint.metricKey, off,
                     now + off - 1, BasePoint.value, throws)
    \/ \E throws \in BOOLEAN : CycleProcess(throws)
    \/ \E throws \in BOOLEAN : CyclePrune(throws)

----------------------------------------------------------------------------
\* The disk cache of current weather: the data collection writes it and GET
\* /api/weather/current reads it. Latitudes and longitudes are in units of
\* 0.0001 degree, the source's values rounded to that unit; no distance
\* compared below is within one unit of the tolerance.

\* the locations the data collection fetches
COLLECTION_LOCATIONS ==
    <<[name |-> "37 Jubilation", latitude |-> 536000, longitude |-> -1136000],
      [name |-> "66 Aspenglen Cres", latitude |-> 536300, longitude |-> -1136300],
      [name |-> "Edmonton Airport CYEG", latitude |-> 533097, longitude |-> -1135803],
      [name |-> "Villeneuve Airport CZVL", latitude |-> 538333, longitude |-> -1133500]>>

\* the locations the route matches a request against
ACCURACY_LOCATIONS ==
    <<[name |-> "37 Jubilation", latitude |-> 536644, longitude |-> -1136458],
      [name |-> "66 Aspenglen Cres", latitude |-> 535602, longitude |-> -1139110],
      [name |-> "Edmonton Airport CYEG", latitude |-> 533141, longitude |-> -1135899],
      [name |-> "Villeneuve Airport CZVL", latitude |-> 536701, longitude |-> -1138631]>>

\* s.toLowerCase().replace(/[^a-z0-9]+/g, '-').replace(/(^-|-$)/g, ''), on
\* the names of the two lists
slug(s) ==
    CASE s = "37 Jubilation" -> "37-jubilation"
      [] s = "66 Aspenglen Cres" -> "66-aspenglen-cres"
      [] s = "Edmonton Airport CYEG" -> "edmonton-airport-cyeg"
      [] s = "Villeneuve Airport CZVL" -> "villeneuve-airport-czvl"

\* CACHE_DIR of the data collection: SERVER_CACHE_DIR if set, else the
\* directory data/cache two levels above the service's own
CollectorCacheDir(e) ==
    IF e.cacheDirSet THEN "SERVER_CACHE_DIR" ELSE "server/data/cache"

\* CACHE_DIR of the route: server/data/cache under the working directory,
\* the repository root
RouteCacheDir == "server/data/cache"

\* the file dir/name written by a writer, replacing the one there
WriteCurrent(files, dir, name, by) ==
    {f \in files : ~(f.dir = dir /\ f.name = name)}
        \cup {[dir |-> dir, name |-> name, by |-> by]}

\* readCache: the file if it exists, else null
readCache(files, dir, name) == {f \in files : f.dir = dir /\ f.name = name}

\* ACCURACY_LOCATIONS.find(...): the first entry within the tolerance on both
\* axes, if any
MatchedLocation(lat, lon) ==
    LET hits == {i \in DOMAIN ACCURACY_LOCATIONS :
                    /\ Abs(ACCURACY_LOCATIONS[i].latitude - lat) < MATCH_TOLERANCE
                    /\ Abs(ACCURACY_LOCATIONS[i].longitude - lon) < MATCH_TOLERANCE}
    IN  IF hits = {} THEN NULL
        ELSE Some(ACCURACY_LOCATIONS[CHOOSE i \in hits : \A j \in hits : i <= j])

\* the collection locations whose current file the data collection has
\* written (bookkeeping for the properties)
Collected ==
    {COLLECTION_LOCATIONS[i].name : i \in
        {j \in DOMAIN COLLECTION_LOCATIONS :
            \E f \in cacheFiles :
                /\ f.dir = CollectorCacheDir(env)
                /\ f.name = slug(COLLECTION_LOCATIONS[j].name)
                /\ f.by = "collector"}}

\* collectLocationData of location i: the four fetches, then the current
\* file; a fetch that throws leaves the files as they are. A collection
\* cycle calls it for each location in turn.
CollectLocationData(i, ok) ==
    /\ cacheFiles' =
          IF ok
          THEN WriteCurrent(cacheFiles, CollectorCacheDir(env),
                            slug(COLLECTION_LOCATIONS[i].name), "collector")
          ELSE cacheFiles
    /\ UNCHANGED <<env, resp>>
    /\ UNCHANGED <<reconVars, leaseVars, auxVars, queueVars, fanVars, procVars, idbVars, passVars, runVars>>

\* the response of GET /api/weather/current, with the request it answers
CurrentResponse(lat, lon, status, xCache, fetchedAt, upstream) ==
    Some([latitude |-> lat, longitude |-> lon, status |-> status, xCache |-> xCache,
          fetchedAt |-> fetchedAt, upstream |-> upstream, collected |-> Collected])

\* GET /api/weather/current?latitude=lat&longitude=lon; liveOk: the live
\* fetch, if one is made, succeeds
GetCurrent(lat, lon, liveOk) ==
    LET matched == MatchedLocation(lat, lon)
        cached == IF matched = NULL THEN {}
                  ELSE readCache(cacheFiles, RouteCacheDir, slug(TheValue(matched).name))
    IN  /\ IF cached # {}
           THEN /\ resp' = CurrentResponse(lat, lon, 200, "HIT", TRUE, FALSE)
                /\ cacheFiles' = cacheFiles
           ELSE IF env.allowLive
           THEN IF liveOk
                THEN /\ resp' = CurrentResponse(lat, lon, 200, "MISS", TRUE, TRUE)
                     /\ cacheFiles' =
                           IF matched = NULL THEN cacheFiles
                           ELSE WriteCurrent(cacheFiles, RouteCacheDir,
                                             slug(TheValue(matched).name), "route")
                ELSE /\ resp' = CurrentResponse(lat, lon, 500, "none", FALSE, TRUE)
                     /\ cacheFiles' = cacheFiles
           ELSE /\ resp' = CurrentResponse(lat, lon, 503, "none", FALSE, FALSE)
                /\ cacheFiles' = cacheFiles
        /\ UNCHANGED env
        /\ UNCHANGED <<reconVars, leaseVars, auxVars, queueVars, fanVars, procVars, idbVars, passVars, runVars>>

\* the coordinates requested: those of the collection locations and those of
\* the accuracy locations
RequestPoints ==
    {<<COLLECTION_LOCATIONS[i].latitude, COLLECTION_LOCATIONS[i].longitude>> :
        i \in DOMAIN COLLECTION_LOCATIONS}
    \cup {<<ACCURACY_LOCATIONS[i].latitude, ACCURACY_LOCATIONS[i].longitude>> :
        i \in DOMAIN ACCURACY_LOCATIONS}

\* the values of the two environment variables
Envs == [allowLive : BOOLEAN, cacheDirSet : BOOLEAN]

\* the server started in one of the environments, the cache empty
InitServer ==
    \E e \in Envs :
        /\ InitStores("sqlite", {}, {})
        /\ InitQueue
        /\ InitFan
        /\ InitProc(<<>>)
        /\ InitCache(e)
        /\ InitIdb
        /\ InitPasses
        /\ InitRun

CacheNext ==
    \/ \E i \in DOMAIN COLLECTION_LOCATIONS, ok \in BOOLEAN : CollectLocationData(i, ok)
    \/ \E p \in RequestPoints, liveOk \in BOOLEAN : GetCurrent(p[1], p[2], liveOk)

----------------------------------------------------------------------------
\* Properties of the reconciliation engine

Row(i) == audit.rows[i]
InPending(i) == \E f \in pending : f.id = i
HoursTracked(sc, b) == IF sc[b] = NULL THEN 0 ELSE TheValue(sc[b]).hoursTracked

RECURSIVE SumInc(_)
SumInc(ids) ==
    IF ids = {} THEN 0
    ELSE LET i == CHOOSE i \in ids : TRUE IN Row(i).inc + SumInc(ids \ {i})

\* the rows a pass run now would score
ScoredNow ==
    LET due == getDuePendingForecasts(pending, now - 1)
    IN  {f \in due : Scorable(f, due, actuals)}

\* C2: a due pending forecast whose actual is missing or not finite is not
\* removed by the reconciliation pass: every row the pass has deleted from the
\* pending store is a row it scored.
C2_UnscoredDueStaysPending ==
    \A i \in RowIds : Row(i).fate = "pass" => Row(i).inc >= 1

\* C3: a second pass run right after a pass, with no new data in between,
\* changes no score, pending row or historical record; run at any later hour
\* it scores none of the rows the first pass reconciled again.
C3_SecondPassChangesNothing ==
    lastOp = "process" =>
        /\ PassResult(Durable, actuals, now) = Durable
        /\ \A d \in TickHours, i \in RowIds :
              Row(i).fate = "pass" =>
                  PassResult(Durable, actuals, now + d).audit.rows[i] = Row(i)

C3_Witness ==
    /\ lastOp = "process"
    /\ \E i \in RowIds : Row(i).fate = "pass" /\ Row(i).inc = 1
    /\ history # {}

\* C4: every pending row is scored at most once, with exactly one historical
\* record per score increment, and a row is never both scored and pruned; the
\* number of historical records ever written equals the number of hoursTracked
\* increments ever applied.
C4_ScoredOncePrunedOrNeither ==
    /\ \A i \in RowIds :
          /\ Row(i).inc <= 1
          /\ Row(i).hist = Row(i).inc
          /\ Row(i).inc = 1 => Row(i).fate = "pass"
          /\ Row(i).fate = "prune" => (Row(i).inc = 0 /\ Row(i).hist = 0)
    /\ nextHistId - 1 = SumInc(RowIds)

C4_Witness ==
    \E i, j \in RowIds :
        /\ Row(i).fate = "pass" /\ Row(i).inc = 1 /\ Row(i).hist = 1
        /\ Row(j).fate = "prune" /\ Row(j).inc = 0

\* C32: when two reconciliation passes overlap, no pending forecast is scored
\* twice: each row has at most one score update and one historical record.
C32_OverlapScoresOnce ==
    \A i \in RowIds : Row(i).inc <= 1 /\ Row(i).hist <= 1

\* C35: every row of the pending store eventually leaves it, scored by a pass
\* or removed unscored by a pass or the prune.
C35_PendingRowsLeave ==
    \A i \in RowIds :
        InPending(i) ~> (~InPending(i) /\ Row(i).fate \in {"pass", "prune"})

\* a row stored for an hour still to come has left the store through a pass
C35_Witness ==
    \E i \in RowIds :
        /\ ~InPending(i)
        /\ Row(i).fate = "pass"
        /\ now >= 3

\* C37: every record syncActualWeather adds has a time no earlier than the
\* hour after the latest stored actual of its location (14 days back if
\* there is none) and no later than the current hour minus one.
C37_SyncStoresObservedHoursOnly ==
    [][ \A a \in actuals' \ actuals :
          LET latest == getLatestActualWeatherTime(actuals, a.locationId)
              startTime == IF latest # NULL THEN TheValue(latest) + 1
                           ELSE now - 14 * 24
          IN  a.time >= startTime /\ a.time <= now - 1 ]_vars

\* C5: whenever the process has died inside applyAccuracyUpdatesAndDelete, or
\* the transaction has committed, the stores are either as the transaction
\* found them or as the whole pass leaves them; at all times a row with a
\* score applied has its historical record and is gone from the pending store.
C5_AllOrNothing ==
    /\ lastOp \in {"crash", "process"} =>
          \/ Durable = tx.before
          \/ Durable = PassResult(tx.before, actuals, now)
    /\ \A i \in RowIds :
          /\ Row(i).inc = Row(i).hist
          /\ Row(i).inc >= 1 => ~InPending(i)

C5_Witness ==
    /\ lastOp = "crash"
    /\ ScoredNow # {}

\* C6: in every bucket hoursTracked is the number of score updates applied to
\* it since the last reset and meanAbsoluteError is their arithmetic mean
\* (meanAbsoluteError * hoursTracked = sum of the errors), whatever the order
\* and the batches in which they were applied.
C6_MeanOfAllErrors ==
    \A b \in Buckets :
        IF audit.buckets[b].n = 0 THEN scores[b] = NULL
        ELSE /\ scores[b] # NULL
             /\ TheValue(scores[b]).hoursTracked = audit.buckets[b].n
             /\ TheValue(scores[b]).meanAbsoluteError[1] * audit.buckets[b].n
                  = audit.buckets[b].sum * TheValue(scores[b]).meanAbsoluteError[2]

C6_Witness ==
    \E b \in Buckets :
        /\ audit.buckets[b].n = 3
        /\ audit.buckets[b].sum = 4
        /\ scores[b] = Some([meanAbsoluteError |-> <<4, 3>>, hoursTracked |-> 3])

\* C7: hoursTracked of a bucket never decreases, except by the explicit reset
\* (clearAccuracyData).
C7_HoursTrackedMonotone ==
    [][ \/ lastOp' = "reset"
        \/ \A b \in Buckets : HoursTracked(scores', b) >= HoursTracked(scores, b) ]_vars

C7_Witness ==
    /\ lastOp = "other"
    /\ \E b \in Buckets : HoursTracked(scores, b) >= 1
    /\ \E i \in RowIds : Row(i).fate = "prune"

\* C8: a pass adds to the bucket '24h' one update per scored row with lead time
\* at most 24, to '48h' one per scored row with lead time in (24, 48], to '5d'
\* one per scored row with lead time above 48, of that row's location, model
\* and metric; every bucket that gets no update keeps its row unchanged.
ClaimedInterval(lead) ==
    CASE lead <= 24 -> "24h"
      [] lead > 24 /\ lead <= 48 -> "48h"
      [] lead > 48 -> "5d"

ClaimedBucket(f) ==
    <<f.locationId, f.modelKey, f.metricKey, ClaimedInterval(f.forecastLeadTimeHours)>>

C8_OnlyTheLeadTimeBucket ==
    [][ lastOp' = "process" =>
          \A b \in Buckets :
             LET k == Cardinality({f \in ScoredNow : ClaimedBucket(f) = b})
             IN  /\ HoursTracked(scores', b) = HoursTracked(scores, b) + k
                 /\ k = 0 => scores'[b] = scores[b] ]_vars

\* lead time 30 and |error| = 1.5 (3 units of 0.5) landed in '48h'; the buckets
\* '24h' and '5d' of the metric hold updates of their own, untouched by it
C8_Witness ==
    /\ lastOp = "process"
    /\ \E h \in history : h.rec.forecastLeadTimeHours = 30 /\ h.rec.error = 3
    /\ scores[<<1, "gfs_global", "temperature_2m", "48h">>]
          = Some([meanAbsoluteError |-> <<3, 1>>, hoursTracked |-> 1])
    /\ scores[<<1, "gfs_global", "temperature_2m", "24h">>] # NULL

\* C12: no forecast with lead time below ACCURACY_FORECAST_START_HOUR is ever
\* scored: storeFutureForecasts adds no such row to the pending table, and a
\* pass writes no historical record and applies no score increment for a
\* pending row with such a lead time.
C12_NoScoreBelowStartHour ==
    [][ /\ lastOp' = "other" =>
              \A f \in pending' \ pending :
                  f.forecastLeadTimeHours >= ACCURACY_FORECAST_START_HOUR
        /\ \A h \in history' \ history :
              h.rec.forecastLeadTimeHours >= ACCURACY_FORECAST_START_HOUR
        /\ \A f \in pending :
              f.forecastLeadTimeHours < ACCURACY_FORECAST_START_HOUR =>
                  audit'.rows[f.id].inc = audit.rows[f.id].inc ]_vars

\* a pass has met a due row with lead time 0 whose actual was there, and a row
\* with lead time 1 that it scored
C12_Witness ==
    /\ lastOp = "process"
    /\ \E f \in tx.before.pending :
          /\ f.forecastLeadTimeHours = 0
          /\ ~InPending(f.id)
          /\ Row(f.id).inc = 0
          /\ \E a \in actuals :
                /\ a.locationId = f.locationId
                /\ a.time = f.targetTime
                /\ a.vals[f.metricKey] # NULL
    /\ \E h \in history : h.rec.forecastLeadTimeHours = 1

\* C13: a pass run at time now neither scores nor deletes a pending forecast
\* whose targetTime is later than now minus one hour.
C13_NotDueBeforeOneHourPast ==
    [][ lastOp' = "process" =>
          \A f \in pending :
              f.targetTime > now - 1 =>
                  /\ f \in pending'
                  /\ audit'.rows[f.id] = audit.rows[f.id] ]_vars

\* a pass has scored a row and kept the row of the current hour
C13_Witness ==
    /\ lastOp = "process"
    /\ \E f \in pending : f.targetTime = now /\ Row(f.id).fate = "none"
    /\ \E i \in RowIds : Row(i).fate = "pass" /\ Row(i).inc = 1

\* C14: after clearAccuracyData and one fresh full update cycle every bucket
\* has hoursTracked 0.
C14_FreshCycleScoresNothing ==
    (step = "idle" /\ cyclesDone = 1) => \A b \in Buckets : HoursTracked(scores, b) = 0

\* the first record passed to addActualWeather for the (locationId, time) of r
FirstAdded(r) ==
    LET ks == {k \in 1..Len(added) :
                  added[k].locationId = r.locationId /\ added[k].time = r.time}
    IN  added[CHOOSE k \in ks : \A j \in ks : k <= j]

\* C15: the actual-weather table holds, for each (locationId, time) ever passed
\* to addActualWeather, exactly one record, the first one passed for that pair,
\* and nothing else.
C15_OneActualPerLocationAndTime ==
    /\ \A k \in 1..Len(added) :
          \A a \in TableActualRecords :
              (a.locationId = added[k].locationId /\ a.time = added[k].time) =>
                  (a \in actuals <=> a = FirstAdded(added[k]))
    /\ \A a \in actuals : \E k \in 1..Len(added) : added[k] = a

\* C16: the pending table never holds two rows with the same locationId,
\* modelKey, metricKey and targetTime.
C16_OnePendingRowPerKey ==
    \A f, g \in pending :
        ( /\ f.locationId = g.locationId /\ f.modelKey = g.modelKey
          /\ f.metricKey = g.metricKey /\ f.targetTime = g.targetTime ) => f = g

\* C17: the lead time stored with a pending forecast is the number of hours
\* from the moment of the fetch to the target hour.
C17_LeadTimeFromFetch ==
    [][\A f \in pending' \ pending : f.forecastLeadTimeHours = f.targetTime - now]_vars

\* the historical records of stores d, without their row ids
RecordsOf(d) == {h.rec : h \in d.history}

\* C18: reconciling the due rows one location at a time, in either order, or
\* all locations in one pass gives the same scores, the same historical
\* records and the same pending table.
C18_PerLocationOrAllAtOnce ==
    LET all == PassResult(Durable, actuals, now)
        oneTwo == PassOfLocation(PassOfLocation(Durable, actuals, now, 1), actuals, now, 2)
        twoOne == PassOfLocation(PassOfLocation(Durable, actuals, now, 2), actuals, now, 1)
    IN  /\ oneTwo.scores = all.scores
        /\ twoOne.scores = all.scores
        /\ RecordsOf(oneTwo) = RecordsOf(all)
        /\ RecordsOf(twoOne) = RecordsOf(all)
        /\ oneTwo.pending = all.pending
        /\ twoOne.pending = all.pending

\* one pass has scored rows of both locations
C18_Witness ==
    /\ lastOp = "process"
    /\ \E h, g \in history : h.rec.locationId = 1 /\ g.rec.locationId = 2

\* C19: every historical record a pass writes carries the value that the
\* stored actual record of the same location and exactly the target time has
\* for the metric, a finite number, and the absolute difference to it; a row
\* with no such record gets no score increment.
C19_ScoredAgainstItsOwnActual ==
    [][ lastOp' = "process" =>
          /\ \A h \in history' \ history :
                \E a \in actuals :
                    /\ a.locationId = h.rec.locationId
                    /\ a.time = h.rec.targetTime
                    /\ a.vals[h.rec.metricKey] # NULL
                    /\ h.rec.actualValue = TheValue(a.vals[h.rec.metricKey])
                    /\ h.rec.error = Abs(h.rec.forecastedValue - h.rec.actualValue)
          /\ \A f \in pending :
                audit'.rows[f.id].inc > audit.rows[f.id].inc =>
                    \E h \in history' \ history :
                        /\ h.rec.src = f.id
                        /\ h.rec.locationId = f.locationId
                        /\ h.rec.targetTime = f.targetTime
                        /\ h.rec.metricKey = f.metricKey
                        /\ h.rec.forecastedValue = f.forecastedValue ]_vars

\* a pass has scored one row and left unscored a row whose hour was observed
\* at the other location only
C19_Witness ==
    /\ lastOp = "process"
    /\ history # {}
    /\ \E f \in tx.before.pending :
          /\ f.forecastLeadTimeHours >= 1
          /\ Row(f.id).fate = "pass"
          /\ Row(f.id).inc = 0
          /\ \E a \in actuals :
                a.time = f.targetTime /\ a.locationId # f.locationId
                /\ a.vals[f.metricKey] # NULL

\* the steps of fullUpdateCycle in the order of its awaits; the cycle ends
\* after the last step or with a throw of reconciliation
StepOrder ==
    {<<"idle", "sync">>, <<"sync", "store">>, <<"store", "process">>,
     <<"process", "prune">>, <<"process", "idle">>, <<"prune", "idle">>}

\* C39: a cycle goes through sync, store, reconcile and prune in this order,
\* one step at a time.  What sync has stored stays as it is until
\* reconciliation has run, and reconciliation scores every due row that has an
\* actual value among them; rows are scored in the reconcile step only, and
\* rows and actuals are pruned in the prune step only, which follows it.
C39_StepsInOrder ==
    [][ /\ step' # step => <<step, step'>> \in StepOrder
        /\ step \in {"sync", "store", "process"} => actuals \subseteq actuals'
        /\ step = "store" => actuals' = actuals
        /\ (step = "process" /\ step' = "prune") =>
              LET due == getDuePendingForecasts(pending, now - 1)
              IN  \A f \in due :
                     Scorable(f, due, actuals) => Row(f.id)'.inc = Row(f.id).inc + 1
        /\ \A i \in RowIds :
              /\ Row(i)'.inc # Row(i).inc => step = "process"
              /\ (Row(i)'.fate = "prune" /\ Row(i).fate # "prune") => step = "prune"
      ]_vars

\* in the first cycle on empty tables, reconciliation has scored a row against
\* an actual that the sync of this cycle stored, and pruning is about to run
C39_Witness ==
    /\ step = "prune"
    /\ cyclesDone = 0
    /\ lastOp = "process"
    /\ \E i \in RowIds : Row(i).inc = 1
    /\ actuals # {}

\* C20: once a storage call has thrown in a step of a cycle, no later step of
\* that cycle runs: the cycle ends.
C20_FailureAbortsCycle ==
    [][(step # "idle" /\ failedAt # "none") => step' \in {step, "idle"}]_vars

----------------------------------------------------------------------------
\* Properties of the lease manager

\* the lease row is held, unexpired, by a holder other than i at time t
HeldByOther(l, i, t) ==
    /\ l # NULL
    /\ TheValue(l).holderId # i
    /\ t - TheValue(l).timestamp <= LEASE_DURATION

\* C1: two acquireLease calls that overlap, both having read the same absent
\* or expired lease row, never both return true.
C1_AtMostOneAcquires ==
    \A i, j \in Instances :
        (i # j /\ ret[i] = "true" /\ ret[j] = "true") => seen[i] # seen[j]

\* C9: acquireLease returns true exactly when the row it read is absent, older
\* than LEASE_DURATION or its own, and then the lease row names the caller and
\* the time it sampled; otherwise it returns false and the row is unchanged.
C9_AcquireContract ==
    [][\A i \in Instances :
          /\ (pc[i] \in {"acquire", "setLease"} /\ ret'[i] = "true") =>
                /\ Acquirable(seen'[i], i, tnow'[i])
                /\ lease' = Some([holderId |-> i, timestamp |-> tnow'[i]])
          /\ (pc[i] = "acquire" /\ ret'[i] = "false") =>
                /\ HeldByOther(seen'[i], i, tnow'[i])
                /\ lease' = lease]_vars

\* C10: no fullUpdateCycle starts in an instance while the lease row is held,
\* unexpired, by a different holder.
C10_CycleOnlyWhileLeader ==
    [][\A i \in Instances :
          (cycle'[i] \ cycle[i] # {}) => ~HeldByOther(lease, i, clock)]_vars

\* the lease row is missing or names a holder other than i
LeaseLost(l, i) == l = NULL \/ TheValue(l).holderId # i

\* C11: a renewal that finds the lease row missing or held by another sets
\* isLeader to false and stops its timer without writing; a renewal proceeds to
\* its write only on a row naming the instance; a renewal write happens only
\* while the timer runs, and the timer starts only when acquireLease succeeds.
C11_LostRenewalStopsItself ==
    [][\A i \in Instances :
          /\ ( /\ rpc[i] = "idle" /\ rpc' = rpc /\ pc' = pc /\ mpc' = mpc
               /\ clock' = clock
               /\ (isLeader'[i] # isLeader[i] \/ leaseInterval'[i] # leaseInterval[i]) )
                => ( /\ LeaseLost(getLease(lease), i)
                     /\ ~isLeader'[i]
                     /\ ~leaseInterval'[i]
                     /\ lease' = lease )
          /\ (rpc[i] = "idle" /\ rpc'[i] = "setLease") => ~LeaseLost(getLease(lease), i)
          /\ (rpc[i] = "setLease" /\ rpc'[i] = "idle") => leaseInterval[i]
          /\ (~leaseInterval[i] /\ leaseInterval'[i]) => ret'[i] = "true"]_vars

\* an instance past a successful acquireLease whose renewal has found the
\* lease in another holder's name
C11_Witness ==
    \E i \in Instances :
        /\ pc[i] \in {"initialSetup", "seeding", "lastCheck", "cycle"}
        /\ ~leaseInterval[i]
        /\ ~isLeader[i]
        /\ lease # NULL
        /\ TheValue(lease).holderId # i

\* C31: a renewal writes the lease row only if the row names the renewing
\* instance at the moment of the write: it never overwrites a row another
\* candidate has acquired since the renewal's read.
C31_RenewalWritesOnlyOwnRow ==
    [][ \A i \in Instances :
          (rpc[i] = "setLease" /\ rpc'[i] = "idle")
              => (lease # NULL /\ TheValue(lease).holderId = i) ]_vars

\* instance i has stopped while the lease row names it
StoppedHolder(i) ==
    /\ pc[i] = "stopped"
    /\ lease # NULL
    /\ TheValue(lease).holderId = i

FreshLeader(i) ==
    /\ ret[i] = "true"
    /\ leaseInterval[i]
    /\ clock - tnow[i] <= LEASE_DURATION

\* C34: while another instance is the leader, its acquisition or renewal at
\* most 90 s old and its renewal timer running, acquireLease returns false
\* and the caller starts no update cycle.
C34_RenewingLeaderKeepsOthersOut ==
    [][ \A i, j \in Instances :
          ( /\ i # j /\ FreshLeader(i)
            /\ pc[j] = "acquire" /\ pc'[j] # "acquire" )
          => (ret'[j] = "false" /\ pc'[j] = "idle" /\ cycle'[j] = cycle[j]) ]_vars

\* C36: one call of checkAndRunHourlyUpdate runs at most one full update
\* cycle: a call that has run the seeding cycle starts no hourly cycle, and
\* the hourly cycle starts only when there is no 'last-accuracy-check' row or
\* it is older than one hour.
C36_OneCyclePerCall ==
    [][ \A i \in Instances :
          (pc[i] = "lastCheck" /\ pc'[i] = "cycle")
              => /\ ~seeded[i]
                 /\ \/ lastCheck = NULL
                    \/ clock - TheValue(lastCheck).timestamp > OneHour ]_vars

----------------------------------------------------------------------------
\* C22: a checkAndRunHourlyUpdate whose acquireLease finds the lease held by
\* another instance returns at once: it is back at rest with acquireLease's
\* false, having started no cycle and no renewal timer and changed neither
\* the lease rows nor the tables.
C22_ContentionIsASkip ==
    [][ \A i \in Instances :
          ( /\ pc[i] = "acquire" /\ pc'[i] # "acquire"
            /\ ~Acquirable(getLease(lease), i, clock) )
          => /\ pc'[i] = "idle"
             /\ ret'[i] = "false"
             /\ cycle' = cycle
             /\ leaseInterval' = leaseInterval
             /\ lease' = lease
             /\ lastCheck' = lastCheck
             /\ <<pending, actuals, history, scores>>' = <<pending, actuals, history, scores>> ]_vars

\* an instance has been refused the lease another instance holds, and is at
\* rest with no cycle in flight and no renewal timer
C22_Witness ==
    \E i \in Instances :
        /\ ret[i] = "false"
        /\ pc[i] = "idle"
        /\ HeldByOther(lease, i, clock)
        /\ cycle[i] = {}
        /\ ~leaseInterval[i]

\* the last fullUpdateCycle that ran has failed in one of its steps
LastCycleFailed == step = "idle" /\ cyclesDone > 0 /\ failedAt # "none"

\* C21: when checkAndRunHourlyUpdate reaches its test of 'last-accuracy-check'
\* and the last full update cycle has failed, it starts a full cycle; it does
\* not skip.
C21_FailedCycleIsRetried ==
    [][ \A i \in Instances :
          (pc[i] = "lastCheck" /\ pc'[i] # "lastCheck" /\ LastCycleFailed)
              => pc'[i] = "cycle" ]_vars

----------------------------------------------------------------------------
\* Properties of the fetch layer

\* the position of model m in MODELS
ModelIndex(m) == CHOOSE k \in 1..Len(FetchModels) : FetchModels[k] = m

\* how many entries the two lists hold for model m
ListEntries(m) ==
    Cardinality({k \in 1..Len(successes) : successes[k] = m})
    + Cardinality({k \in 1..Len(failures) : failures[k].modelName = ModelName(m)})

\* C23: the fan-out never rejects; a model whose callback has returned has
\* exactly one entry, in successes or as {modelName, reason} in failures, a
\* model whose callback has not returned has none, and when Promise.all
\* resolves every model has its entry.
C23_EveryModelInOneList ==
    /\ joined # "rejected"
    /\ \A m \in FetchModelSet :
          ListEntries(m) = IF fan[m] = "done" THEN 1 ELSE 0
    /\ \A k \in 1..Len(failures) :
          /\ DOMAIN failures[k] = {"modelName", "reason"}
          /\ failures[k].reason \in {"network"} \cup (BodyOutcomes \ {"ok"})
    /\ joined = "resolved" => \A m \in FetchModelSet : ListEntries(m) = 1

\* a fan-out has ended with a failed model and two successful ones that
\* finished against the order of MODELS
C23_Witness ==
    /\ joined = "resolved"
    /\ failures # <<>>
    /\ Len(successes) = 2
    /\ ModelIndex(successes[1]) > ModelIndex(successes[2])

\* sequence a is the beginning of sequence b
IsPrefix(a, b) == Len(a) <= Len(b) /\ \A k \in 1..Len(a) : a[k] = b[k]

\* C27: fetches are started in the order of the pushes, never two at a time
\* and never by two loops, and each one at least MIN_REQUEST_INTERVAL after
\* the one before.
C27_OneAtATimeInOrderSpaced ==
    /\ [](/\ Cardinality(inflight) <= 1
          /\ loops <= 1
          /\ IsPrefix(dispatched, enqueued))
    /\ [][ (Len(dispatched') > Len(dispatched) /\ lastDispatch # NULL)
             => /\ Len(dispatched') = Len(dispatched) + 1
                /\ TheValue(lastDispatch') - TheValue(lastDispatch) >= MIN_REQUEST_INTERVAL
          ]_vars

\* four requests have been started, the last one pushed by another caller
\* while the loop was running
C27_Witness ==
    /\ Len(dispatched) = 4
    /\ dispatched[4] = "archive"
    /\ TheValue(lastDispatch) >= 3 * MIN_REQUEST_INTERVAL

\* C28: a failing fetch rejects the promise of its own caller and nothing
\* else: the other promises, the waiting requests and the loop are as they
\* were, and the loop goes to its timer.  No request is started twice, no
\* promise is settled twice, and when no loop is running every request pushed
\* has been started once and its promise settled once.
C28_FailureStaysWithItsCaller ==
    /\ [](/\ \A r \in Requests :
                /\ settles[r] <= 1
                /\ Cardinality({k \in 1..Len(dispatched) : dispatched[k] = r}) <= 1
          /\ loops = 0 =>
                \A k \in 1..Len(enqueued) :
                    /\ settles[enqueued[k]] = 1
                    /\ \E j \in 1..Len(dispatched) : dispatched[j] = enqueued[k])
    /\ [][ \A r \in Requests :
              (r \in inflight /\ r \notin inflight' /\ completion'[r] # "resolved")
              => /\ completion'[r] = "rejected"
                 /\ \A q \in Requests \ {r} : completion'[q] = completion[q]
                 /\ requestQueue' = requestQueue
                 /\ dispatched' = dispatched
                 /\ loops' = loops
                 /\ qpc'.at = "sleep" ]_vars

\* a fetch has failed, a request pushed after it has succeeded, and the loop
\* has ended
C28_Witness ==
    /\ loops = 0
    /\ \E i, j \in 1..Len(dispatched) :
          /\ i < j
          /\ completion[dispatched[i]] = "rejected"
          /\ completion[dispatched[j]] = "resolved"

\* C38: when isProcessingQueue is false nothing waits in requestQueue, a
\* promise is settled only for a request that was started, and whatever the
\* loop is doing when queuedFetch pushes a request, a moment comes at which
\* no pushed request has its promise still pending.
C38_EveryRequestDispatchedAndSettled ==
    /\ [](~isProcessingQueue => requestQueue = <<>>)
    /\ [](\A r \in Requests :
            completion[r] \in {"resolved", "rejected"}
                => \E k \in 1..Len(dispatched) : dispatched[k] = r)
    /\ []<>(\A r \in Requests : completion[r] # "pending")

\* the loop is in its wait after the last request of the fan-out, the timer
\* is due, and a request of another caller waits in the queue
C38_Witness ==
    /\ qpc.at = "sleep"
    /\ qclock - qpc.since >= MIN_REQUEST_INTERVAL
    /\ requestQueue = <<"archive">>
    /\ \A m \in FetchModelSet : completion[m] \in {"resolved", "rejected"}

----------------------------------------------------------------------------
\* Properties of the two score layouts

\* C29: after any batches given to both adapters, the view getAccuracyScores
\* builds from the flat rows is the content of the nested store: the same
\* records, metrics, hoursTracked and meanAbsoluteError, with 0 / 0 for the
\* intervals of a scored metric that were never scored.
C29_FlatAndNestedAgree == getAccuracyScores(scores) = idbScores

\* a record has a metric with one interval scored twice and another never
C29_Witness ==
    \E k \in Locations \X Models, m \in Metrics :
        /\ idbScores[k] # NULL
        /\ TheValue(idbScores[k]).scores[m] # NULL
        /\ TheValue(TheValue(idbScores[k]).scores[m])["24h"].hoursTracked = 2
        /\ TheValue(TheValue(idbScores[k]).scores[m])["5d"].hoursTracked = 0
        /\ scores[<<k[1], k[2], m, "5d">>] = NULL

----------------------------------------------------------------------------
\* Properties of the processing

\* the median series, empty if there is none
MedianSeries == IF derived = NULL THEN <<>> ELSE TheValue(derived)

\* the points of the real models: <<k, i>> is hour i of the k-th model
RealPoints ==
    IF forecasts = NULL THEN {}
    ELSE {ki \in (1..MaxModels) \X (1..2) :
             /\ ki[1] <= Len(TheValue(forecasts))
             /\ ModelCategory(TheValue(forecasts)[ki[1]].model) # "Derived"
             /\ ki[2] <= Len(TheValue(forecasts)[ki[1]].hourly)}

PointAt(ki) == TheValue(forecasts)[ki[1]].hourly[ki[2]]

\* the numbers the real models report for metric at time, one pair <<k, v>>
\* per model
Reported(time, metric) ==
    {<<ki[1], TheValue(PointAt(ki)[metric])>> :
        ki \in {x \in RealPoints : PointAt(x).time = time /\ PointAt(x)[metric] # NULL}}

\* the k-th smallest of the reported numbers R, by rank
KthSmallest(R, k) ==
    CHOOSE x \in {p[2] : p \in R} :
        /\ Cardinality({p \in R : p[2] < x}) < k
        /\ k <= Cardinality({p \in R : p[2] <= x})

\* twice the statistical median of the reported numbers R
TwiceStatisticalMedian(R) ==
    LET n == Cardinality(R)
    IN  IF n % 2 = 1 THEN 2 * KthSmallest(R, (n + 1) \div 2)
        ELSE KthSmallest(R, n \div 2) + KthSmallest(R, n \div 2 + 1)

\* C24: for every hour of the median series and every numeric metric, the
\* median value is the statistical median of the numbers the real models
\* report for that hour, and there is none if no model reports a number; the
\* median of 2.0, 4.0 and 9.0 is 4.0.
C24_MedianIsStatisticalMedian ==
    /\ Median(<<1800, 400, 800>>) = 800
    /\ \A i \in 1..Len(MedianSeries), metric \in PointMetrics :
          LET p == MedianSeries[i]
              R == Reported(p.time, metric)
          IN  IF R = {} THEN p[metric] = NULL
              ELSE /\ p[metric] # NULL
                   /\ 2 * TheValue(p[metric]) = TwiceStatisticalMedian(R)

\* the median series has an hour with the temperatures 2.0, 4.0 and 9.0 of
\* three models and median 4.0, and an hour with two different temperatures
C24_Witness ==
    \E i, j \in 1..Len(MedianSeries) :
        /\ {p[2] : p \in Reported(MedianSeries[i].time, "temperature_2m")} = {400, 800, 1800}
        /\ MedianSeries[i].temperature_2m = Some(800)
        /\ Cardinality(Reported(MedianSeries[j].time, "temperature_2m")) = 2
        /\ Cardinality({p[2] : p \in Reported(MedianSeries[j].time, "temperature_2m")}) = 2

\* C25: once the median series is computed it has an entry for every hour
\* that any real model has with a number in it.
C25_MedianCoversUnionOfHours ==
    derived # NULL =>
        \A ki \in RealPoints :
            (\E metric \in PointMetrics : PointAt(ki)[metric] # NULL)
                => \E i \in 1..Len(MedianSeries) : MedianSeries[i].time = PointAt(ki).time

\* rain and snow, each present or not, to the type: 0 none, 1 rain, 2 mixed, 3 snow
TypeOfPresence(rainPresent, snowPresent) ==
    IF rainPresent /\ snowPresent THEN 2
    ELSE IF rainPresent THEN 1
    ELSE IF snowPresent THEN 3
    ELSE 0

\* value x is there and above threshold
Above(x, threshold) == x # NULL /\ TheValue(x) > threshold

\* C26: the type of every hour, of a model and of the median, is rain if only
\* rain is above the threshold, snow if only snow is, mixed if both are and
\* none if neither is; 0.06 mm of rain alone is rain, 0.2 cm of snow alone is
\* snow, 0.1 of each is mixed, and nothing is none.
C26_PrecipitationTypeByPresence ==
    /\ MedianPrecipitationType(Some(12), Some(0)) = 1
    /\ MedianPrecipitationType(Some(0), Some(40)) = 3
    /\ MedianPrecipitationType(Some(20), Some(20)) = 2
    /\ MedianPrecipitationType(Some(0), Some(0)) = 0
    /\ IndividualPrecipitationType(Some(12), Some(0)) = 1
    /\ IndividualPrecipitationType(Some(0), Some(40)) = 3
    /\ IndividualPrecipitationType(Some(20), Some(20)) = 2
    /\ IndividualPrecipitationType(Some(0), Some(0)) = 0
    /\ \A ki \in RealPoints :
          PointAt(ki).precipitation_type =
              Some(TypeOfPresence(Above(PointAt(ki).rain, 0), Above(PointAt(ki).snowfall, 0)))
    /\ \A i \in 1..Len(MedianSeries) :
          MedianSeries[i].precipitation_type =
              Some(TypeOfPresence(Above(MedianSeries[i].rain, PRECIPITATION_PRESENT),
                                  Above(MedianSeries[i].snowfall, PRECIPITATION_PRESENT)))

\* the median series has a mixed hour and an hour of another type, and a
\* model has an hour of snow
C26_Witness ==
    /\ \E i, j \in 1..Len(MedianSeries) :
          /\ MedianSeries[i].precipitation_type = Some(2)
          /\ MedianSeries[j].precipitation_type # Some(2)
    /\ \E ki \in RealPoints : PointAt(ki).precipitation_type = Some(3)

\* C40: in the hourly view the type of a median hour is what the classifier
\* of a model's hour gives for the median rain and the median snowfall, and in
\* the daily view the median hours have no type.
C40_MedianTypeByTheSameClassifier ==
    /\ \A i \in 1..Len(MedianSeries) :
          MedianSeries[i].precipitation_type =
              Some(IndividualPrecipitationType(MedianSeries[i].rain, MedianSeries[i].snowfall))
    /\ forecasts # NULL =>
          LET daily == calculateDerivedModels(TheValue(forecasts), "daily")
          IN  daily # NULL =>
                \A i \in 1..Len(TheValue(daily)) :
                    TheValue(daily)[i].precipitation_type = NULL

----------------------------------------------------------------------------
\* Properties of the disk cache

\* C30: a GET /api/weather/current for the coordinates of a collection
\* location whose current file the data collection had written is answered
\* from the cache: X-Cache: HIT, a fetchedAt field, no upstream fetch.
C30_CollectedLocationServedFromCache ==
    resp # NULL =>
        LET r == TheValue(resp)
        IN  \A i \in DOMAIN COLLECTION_LOCATIONS :
                (/\ COLLECTION_LOCATIONS[i].latitude = r.latitude
                 /\ COLLECTION_LOCATIONS[i].longitude = r.longitude
                 /\ COLLECTION_LOCATIONS[i].name \in r.collected)
                => (/\ r.status = 200
                    /\ r.xCache = "HIT"
                    /\ r.fetchedAt
                    /\ ~r.upstream)

----------------------------------------------------------------------------
\* Specifications

\* the reconciliation engine over the SQLite adapter
Spec == Init /\ [][Next]_vars

\* the score table of the SQLite adapter under arbitrary lists of updates
SpecScores == Init /\ [][ScoresNext]_vars

\* the lease manager and the cycle gating of two instances, SQLite adapter
SpecLease == Init /\ [][LeaseNext]_vars

\* the same with the adapter the accuracy service imports
SpecMock == InitMock /\ [][MockNext]_vars

\* the score stores of the two adapters under the same batches
SpecLayouts == Init /\ [][LayoutsNext]_vars

\* the engine as the hours pass, with update cycles that keep running
SpecDrain == Init /\ [][DrainNext]_vars /\ DrainFairness

\* the lease manager with a stopping instance, the calls of the others fair
SpecStale == Init /\ [][StaleNext]_vars /\ StaleFairness

\* two overlapping reconciliation passes on tables with content
SpecOverlap == InitTables /\ [][OverlapNext]_vars

\* the data collection and GET /api/weather/current over the disk cache
SpecCache == InitServer /\ [][CacheNext]_vars

\* processing of any payloads of up to MaxModels models
SpecMedian == InitMedian /\ [][MedianNext]_vars

\* the fetch queue under a fan-out and one more caller
SpecFetch == Init /\ [][FetchNext]_vars

\* the same queue with fetches that settle and timers that fire
SpecFetchFair == Init /\ [][FetchNext]_vars /\ FetchFairness

\* checkAndRunHourlyUpdate of one instance, with the cycles it runs
SpecHourly == Init /\ [][HourlyNext]_vars

\* the reconciliation engine started on tables with content
SpecTables == InitTables /\ [][TablesNext]_vars

\* fullUpdateCycle step by step, with storage calls that may throw
SpecCycle == Init /\ [][CycleNext]_vars

\* the actual-weather table of the SQLite adapter under any inserts
SpecActuals == Init /\ [][ActualsNext]_vars

\* the same engine with crashes inside applyAccuracyUpdatesAndDelete
SpecCrash == Init /\ [][CrashNext]_vars

====
